---- MODULE Spec2Model ----
(***************************************************************************)
(* Kozi chatbot: the conversation orchestrator (ChatService.sendMessage),  *)
(* the CV generation state machine (CVGenerationService) and the upstream  *)
(* jobs client (ChatService._getAPIToken / _fetchRealtimeJobs).            *)
(*                                                                         *)
(* Three specifications share the module:                                  *)
(*   SeqSpec   messages of one session handled one after the other         *)
(*   Spec      messages of one session handled concurrently (every await   *)
(*             of the handler is a point where another request may run)    *)
(*   JobsSpec  concurrent callers of _fetchRealtimeJobs against the shared *)
(*             token cache, with wall-clock time in minutes                *)
(***************************************************************************)
EXTENDS Integers, Sequences, FiniteSets, TLC

(***************************************************************************)
(* Bounds of the model.                                                    *)
(***************************************************************************)
MaxMsgs == 9
MaxSeqMsgs == 3
MaxConcMsgs == 3
MaxInflight == 2
MaxStoreFailures == 2
MaxCvStoreFailures == 1
MaxConcStoreFailures == 1
NumCallers == 2
MaxCalls == 2
MaxTime == 57
MaxApplications == 3

(***************************************************************************)
(* Message texts.  A text is the sequence of its whitespace-separated      *)
(* words; the regular expressions of the service are evaluated on it.      *)
(***************************************************************************)
CreateMyCv      == <<"create", "my", "cv">>
CreateACv       == <<"Create", "a", "CV">>
HelpWriteCv     == <<"Help", "me", "write", "a", "CV">>
ContinueCv      == <<"yes", "continue", "create", "a", "cv">>
RestartCv       == <<"restart", "create", "a", "cv">>
ShowJobs        == <<"Show", "me", "available", "cleaning", "jobs", "in", "Kigali">>
ApplyJob1       == <<"Apply", "to", "job", "number", "1">>
ApplyJob3       == <<"apply", "for", "job", "3">>
HowApply        == <<"How", "do", "I", "apply", "for", "a", "job">>
WhatIsKozi      == <<"What", "is", "Kozi?">>
CancelText      == <<"please", "cancel">>
StepAnswer      == <<"John", "Doe", "0788", "john@x.rw", "Kigali">>

Texts ==
  { CreateMyCv, CreateACv, HelpWriteCv, ContinueCv, RestartCv, ShowJobs,
    ApplyJob1, ApplyJob3, HowApply, WhatIsKozi, CancelText, StepAnswer }

NoText == <<>>

\* String.prototype.toLowerCase on one word of the vocabulary.
LowerWord(w) ==
  CASE w = "Create" -> "create"
    [] w = "CV"     -> "cv"
    [] w = "Help"   -> "help"
    [] w = "Show"   -> "show"
    [] w = "Kigali" -> "kigali"
    [] w = "Apply"  -> "apply"
    [] w = "How"    -> "how"
    [] w = "I"      -> "i"
    [] w = "What"   -> "what"
    [] w = "Kozi?"  -> "kozi?"
    [] w = "John"   -> "john"
    [] w = "Doe"    -> "doe"
    [] OTHER        -> w

toLowerCase(t) == [i \in 1..Len(t) |-> LowerWord(t[i])]

\* The word at position i, or "" past the end.
WordAt(t, i) == IF i \in 1..Len(t) THEN t[i] ELSE ""

\* /\b(w1|w2|...)\b/ : some word of the text is one of W.
HasWord(t, W) == \E i \in 1..Len(t) : t[i] \in W

CvVerbs  == {"create", "write", "make", "generate", "build", "prepare", "need"}
CvNouns  == {"cv", "resume"}
CvHelpWords == {"creation", "generation", "preparation", "help", "assistance"}
JobVerbs == {"find", "search", "show", "available", "open"}
JobNouns == {"job", "jobs", "position", "positions", "opportunity",
             "opportunities", "vacancy", "vacancies"}
JobAfter == {"available", "in", "for"}
ApplyWords == {"apply", "applying", "application"}

\* /\b(create|...|need)\s+(a\s+)?(cv|resume|curriculum vitae)\b/
MatchesCvVerbNoun(t) ==
  \E i \in 1..Len(t) :
    /\ t[i] \in CvVerbs
    /\ \/ WordAt(t, i + 1) \in CvNouns
       \/ WordAt(t, i + 1) = "curriculum" /\ WordAt(t, i + 2) = "vitae"
       \/ WordAt(t, i + 1) = "a" /\ WordAt(t, i + 2) \in CvNouns
       \/ /\ WordAt(t, i + 1) = "a"
          /\ WordAt(t, i + 2) = "curriculum"
          /\ WordAt(t, i + 3) = "vitae"

\* /\b(cv|resume)\s+(creation|generation|preparation|help|assistance)\b/
MatchesCvHelpNoun(t) ==
  \E i \in 1..Len(t) : t[i] \in CvNouns /\ WordAt(t, i + 1) \in CvHelpWords

\* /\bhelp.*cv\b/ : a word starting with "help", later a word ending in "cv".
MatchesHelpCv(t) ==
  \E i \in 1..Len(t) : \E j \in i..Len(t) :
    /\ i < j
    /\ t[i] \in {"help"}
    /\ t[j] \in {"cv"}

\* /\b(find|...|open)\s+(jobs?|positions?|opportunities?|vacancies?)\b/
\*   (the two-word alternative "look for" included)
MatchesJobVerbNoun(t) ==
  \E i \in 1..Len(t) :
    \/ t[i] \in JobVerbs /\ WordAt(t, i + 1) \in JobNouns
    \/ t[i] = "look" /\ WordAt(t, i + 1) = "for" /\ WordAt(t, i + 2) \in JobNouns

\* /\bjobs?\s+(available|near me|in|for)\b/
MatchesJobAfter(t) ==
  \E i \in 1..Len(t) :
    /\ t[i] \in {"job", "jobs"}
    /\ \/ WordAt(t, i + 1) \in JobAfter
       \/ WordAt(t, i + 1) = "near" /\ WordAt(t, i + 2) = "me"

\* /\bwhat\s+jobs?\b/
MatchesWhatJobs(t) ==
  \E i \in 1..Len(t) : t[i] = "what" /\ WordAt(t, i + 1) \in {"job", "jobs"}

\* /\b(apply|applying|application)\s+(for|to)?\s*(job|position)\b/
MatchesApplyJob(t) ==
  \E i \in 1..Len(t) :
    /\ t[i] \in ApplyWords
    /\ \/ WordAt(t, i + 1) \in {"job", "position"}
       \/ WordAt(t, i + 1) \in {"for", "to"} /\ WordAt(t, i + 2) \in {"job", "position"}

\* /\bhow.*apply\b/
MatchesHowApply(t) ==
  \E i \in 1..Len(t) : \E j \in i..Len(t) :
    i < j /\ t[i] \in {"how"} /\ t[j] \in {"apply"}

\* Mutant of _detectIntent: the job-application patterns are tried before the
\* job-search patterns.
_detectIntentApplyFirst(message) ==
  LET text == toLowerCase(message) IN
  IF MatchesCvVerbNoun(text) \/ MatchesCvHelpNoun(text) \/ MatchesHelpCv(text)
    THEN "cv_generation"
  ELSE IF MatchesApplyJob(text) \/ MatchesHowApply(text)
    THEN "job_application"
  ELSE IF \/ MatchesJobVerbNoun(text) \/ MatchesJobAfter(text)
          \/ MatchesWhatJobs(text) \/ HasWord(text, {"hiring"})
    THEN "jobs"
  ELSE "general"

_detectIntent(message) ==
  LET text == toLowerCase(message) IN
  IF MatchesCvVerbNoun(text) \/ MatchesCvHelpNoun(text) \/ MatchesHelpCv(text)
    THEN "cv_generation"
  ELSE IF \/ MatchesJobVerbNoun(text) \/ MatchesJobAfter(text)
          \/ MatchesWhatJobs(text) \/ HasWord(text, {"hiring"})
    THEN "jobs"
  ELSE IF MatchesApplyJob(text) \/ MatchesHowApply(text)
    THEN "job_application"
  ELSE "general"


\* message.match(/job\s*(?:number\s*)?#?(\d+)/i): the number after "job",
\* or -1 when the text names none.
DigitsOf(w) == CASE w = "1" -> 1 [] w = "3" -> 3 [] OTHER -> -1

JobNumberAt(t, i) ==
  IF t[i] # "job" THEN -1
  ELSE IF DigitsOf(WordAt(t, i + 1)) # -1 THEN DigitsOf(WordAt(t, i + 1))
  ELSE IF WordAt(t, i + 1) = "number" THEN DigitsOf(WordAt(t, i + 2))
  ELSE -1

JobNumber(message) ==
  LET t == toLowerCase(message)
      hits == {i \in 1..Len(t) : JobNumberAt(t, i) # -1}
  IN IF hits = {} THEN -1
     ELSE JobNumberAt(t, CHOOSE i \in hits : \A j \in hits : i <= j)

\* /\b(cancel|stop|quit|exit)\b/i
IsCancel(message) == HasWord(toLowerCase(message), {"cancel", "stop", "quit", "exit"})

\* /\b(yes|continue|resume|proceed)\b/i
IsContinue(message) ==
  HasWord(toLowerCase(message), {"yes", "continue", "resume", "proceed"})

\* /\b(no|new|fresh|start over|restart)\b/i
IsStartFresh(message) ==
  LET t == toLowerCase(message) IN
  \/ HasWord(t, {"no", "new", "fresh", "restart"})
  \/ \E i \in 1..Len(t) : t[i] = "start" /\ WordAt(t, i + 1) = "over"

\* _extractTopics: the topics whose keywords occur inside a word of the text.
ExtractTopics(message) ==
  LET t == toLowerCase(message) IN
  (IF HasWord(t, {"cv", "resume"}) THEN {"cv"} ELSE {})
  \cup (IF HasWord(t, {"job", "jobs", "apply"}) THEN {"jobs"} ELSE {})
  \cup (IF HasWord(t, {"help"}) THEN {"help"} ELSE {})

(***************************************************************************)
(* The CV generation state machine: its step order and the state it keeps  *)
(* in the session context under cv_generation.                             *)
(***************************************************************************)
steps ==
  << "contact_info", "professional_summary", "work_experience", "education",
     "skills", "certifications", "languages" >>

StepSet == {steps[i] : i \in 1..Len(steps)}

\* this.steps.indexOf(step), 1-based.
IndexOf(step) == CHOOSE i \in 1..Len(steps) : steps[i] = step

\* cv_data: step name -> parsed payload; 0 stands for "no entry".
EmptyData == [s \in StepSet |-> 0]

UserId == "u1"

NoCV ==
  [ present |-> FALSE, current_step |-> "none", completed_steps |-> <<>>,
    cv_data |-> EmptyData, completed |-> FALSE ]

\* The state startCVGeneration and the start-fresh branch save.
FreshCV ==
  [ present |-> TRUE, current_step |-> "contact_info", completed_steps |-> <<>>,
    cv_data |-> EmptyData, completed |-> FALSE ]

\* Mutant of CvActive: the completed flag is read the wrong way round.
CvActiveWhenCompleted(cv) == cv.present /\ cv.completed

\* sendMessage: cvState && cvState.current_step && !cvState.completed
CvActive(cv) == cv.present /\ ~cv.completed


(***************************************************************************)
(* State.                                                                  *)
(***************************************************************************)
VARIABLES
  pc,             \* per message: where its sendMessage call stands
  loc,            \* per message: the local variables of its call
  transcript,     \* the session's turns, in append order
  context,        \* the session's context map
  generated_cvs,  \* rows of the generated_cvs table
  applications,   \* rows of the job_applications table
  profile,        \* the user's profile completion percentage
  failuresLeft,   \* database calls that may still fail
  apiToken,       \* ChatService.apiToken (0: null)
  tokenExpiry,    \* ChatService.tokenExpiry, in minutes (0: null)
  now,            \* Date.now(), in minutes
  hasCreds,       \* JOBS_API_EMAIL and JOBS_API_PASSWORD are set
  issued,         \* tokens the login endpoint has handed out
  calls,          \* calls of _fetchRealtimeJobs made so far
  jc,             \* per caller of _fetchRealtimeJobs: its locals
  classified,     \* a message and what _detectIntent made of it
  feed,           \* an upstream jobs body and what _processJobsResponse made of it
  retrieval,      \* a similarity store, a query and what search made of them
  store,          \* two sessions' context maps and transcripts, by session id
  listing,        \* a session's last_jobs, the jobs last displayed, an application
  conversation,   \* a transcript and the input built for the text generator
  migrations,     \* the migration files, schema_migrations and the executed statements
  composable      \* the Vue composable's refs and the requests it has sent

chatVars ==
  << pc, loc, transcript, context, generated_cvs, applications, profile,
     failuresLeft >>

jobsVars == << apiToken, tokenExpiry, now, hasCreds, issued, calls, jc >>

\* The arguments and results of the functions checked on their own.
fnVars == << classified, feed, retrieval >>

\* The state of the components checked in specifications of their own.
partVars == << store, listing, conversation, migrations, composable >>

vars == << chatVars, jobsVars, fnVars, partVars >>

\* No function is being checked on its own.
NoFn == [pc |-> "idle"]

PartsIdle ==
  /\ store = NoFn
  /\ listing = NoFn
  /\ conversation = NoFn
  /\ migrations = NoFn
  /\ composable = NoFn

FnIdle ==
  /\ classified = NoFn
  /\ feed = NoFn
  /\ retrieval = NoFn
  /\ PartsIdle

Msgs == 1..MaxMsgs

JobLists == { <<>>, <<101>>, <<101, 102>> }

ProfileLevels == {40, 80}

NoLoc ==
  [ text |-> NoText, known |-> TRUE, cvState |-> NoCV, state |-> NoCV,
    intent |-> "none", path |-> "none", parse |-> "none", hasProgress |-> FALSE,
    resp |-> "none", outcome |-> "none", job |-> 0, dup |-> FALSE ]

InitContext ==
  [ cv_generation |-> NoCV, last_jobs |-> <<>>, intent |-> "none",
    last_profile_completion |-> 0, topics_discussed |-> {} ]

\* A database call: it succeeds, or (while the run's failures last) it fails.
StoreOk == failuresLeft' = failuresLeft
StoreFails == failuresLeft > 0 /\ failuresLeft' = failuresLeft - 1

\* ChatSession.addMessage(sessionId, text, sender)
addMessage(sender, m) == transcript' = Append(transcript, <<sender, m>>)

\* Mutant of UniqueKeyRejects: the table has no unique key.
UniqueKeyAbsent(rows, row) == FALSE

\* UNIQUE KEY unique_application (job_id, user_id): the INSERT of a row whose
\* pair is already in the table fails with ER_DUP_ENTRY.
UniqueKeyRejects(rows, row) == \E i \in 1..Len(rows) : rows[i] = row

\* Mutant of ProfileSufficient: the threshold is not checked.
ProfileAlwaysSufficient(percentage) == TRUE

\* !(profile.completion_percentage < 60)
ProfileSufficient(percentage) == ~(percentage < 60)

\* sendMessage has returned its response (or thrown): nothing of the call is
\* left to run; its locals are still readable at "ret".
Finish(m, path, resp, outcome) ==
  /\ pc' = [pc EXCEPT ![m] = "ret"]
  /\ loc' = [loc EXCEPT ![m].path = path, ![m].resp = resp, ![m].outcome = outcome]

Goto(m, label) == pc' = [pc EXCEPT ![m] = label]


(***************************************************************************)
(* CVGenerationService: the pure parts of processStep.                     *)
(***************************************************************************)
\* this.steps[currentStepIndex + 1] is defined.
HasNextStep(step) == IndexOf(step) < Len(steps)

\* Mutant of NextStepOf: the step after the next one is taken.
NextStepSkips(step) ==
  steps[IF IndexOf(step) + 2 <= Len(steps) THEN IndexOf(step) + 2 ELSE Len(steps)]

NextStepOf(step) == steps[IndexOf(step) + 1]

\* processStep, after parseStepInput has returned parsedData: the payload is
\* stored under the step's name, the step is pushed, current_step advances
\* when a next step exists.
ApplyStep(state, currentStep, parsedData) ==
  [ state EXCEPT
      !.cv_data = [state.cv_data EXCEPT ![currentStep] = parsedData],
      !.completed_steps = Append(state.completed_steps, currentStep),
      !.current_step = IF HasNextStep(currentStep) THEN NextStepOf(currentStep)
                       ELSE state.current_step ]

\* Mutant of MarkedCompleted: the snapshot is not spread into the new value.
MarkedCompletedOnly(cvState) ==
  [ present |-> TRUE, current_step |-> "none", completed_steps |-> <<>>,
    cv_data |-> EmptyData, completed |-> TRUE ]

\* { ...cvState, completed: true }
MarkedCompleted(cvState) == [cvState EXCEPT !.completed = TRUE]

\* JSON.parse(jsonMatch[0]): the object has the shape systemPrompts[step] asks
\* for; the model keeps the step's index as the payload.
ParsedData(step) == IndexOf(step)

\* What the text-generation collaborator answers to parseStepInput: a JSON
\* object, text without braces, braces that do not parse, or a failure.
ParseOutcomes == {"json", "nojson", "badjson", "fail"}

\* Mutant of ParseThrows: only a failed generation call throws; any answer
\* is taken as the step's payload.
ParseThrowsOnFailureOnly(out) == out = "fail"

\* parseStepInput throws unless the answer holds a JSON object that parses.
ParseThrows(out) == out # "json"

(***************************************************************************)
(* ChatService.sendMessage, one action per await.                          *)
(***************************************************************************)
Inflight == {k \in Msgs : pc[k] \notin {"idle", "done"}}

\* Mutant of FirstAwait: sendMessage starts with the session read.
FirstAwaitIsLoad == "load"

\* The first statement of sendMessage's try block:
\*   await ChatSession.addMessage(sessionId, message, 'user')
FirstAwait == "addUser"

\* A request arrives: the controller calls sendMessage(sessionId, userId, text).
\* sessions says whether the session id may be an unknown one.
Receive(m, maxMsgs, maxInflight, texts, sessions) ==
  /\ pc[m] = "idle"
  /\ m <= maxMsgs
  /\ \A k \in 1..(m - 1) : pc[k] # "idle"
  /\ Cardinality(Inflight) < maxInflight
  /\ \E t \in texts, k \in sessions :
       loc' = [loc EXCEPT ![m].text = t, ![m].known = k]
  /\ Goto(m, FirstAwait)
  /\ UNCHANGED << transcript, context, generated_cvs, applications, profile,
                  failuresLeft >>
  /\ UNCHANGED << jobsVars, fnVars, partVars >>

\* await ChatSession.addMessage(sessionId, message, 'user')
AddUserMessage(m) ==
  /\ pc[m] = "addUser"
  /\ \/ loc[m].known /\ StoreOk /\ addMessage("user", m) /\ Goto(m, "load")
     \/ StoreFails /\ UNCHANGED transcript /\ Goto(m, "catch")
     \* an unknown session id: the store changes no row, or rejects the call
     \/ ~loc[m].known /\ StoreOk /\ UNCHANGED transcript /\ Goto(m, "load")
     \/ ~loc[m].known /\ StoreOk /\ UNCHANGED transcript /\ Goto(m, "catch")
  /\ UNCHANGED << loc, context, generated_cvs, applications, profile >>
  /\ UNCHANGED << jobsVars, fnVars, partVars >>

HandlerLabel(intent) ==
  CASE intent = "jobs" -> "jobs"
    [] intent = "cv_generation" -> "cvi"
    [] intent = "job_application" -> "app"
    [] OTHER -> "gen"

\* const session = await ChatSession.findBySessionId(sessionId); the CV flow
\* is resumed when its state is active, else the intent picks the handler.
LoadSession(m) ==
  /\ pc[m] = "load"
  /\ \/ /\ loc[m].known
        /\ StoreOk
        /\ LET cv == context.cv_generation
               intent == _detectIntent(loc[m].text)
           IN IF CvActive(cv)
              THEN /\ loc' = [loc EXCEPT ![m].cvState = cv, ![m].path = "cv_flow"]
                   /\ Goto(m, "flow")
              ELSE /\ loc' = [loc EXCEPT ![m].cvState = cv, ![m].intent = intent,
                                         ![m].path = intent]
                   /\ Goto(m, HandlerLabel(intent))
     \/ StoreFails /\ Goto(m, "catch") /\ UNCHANGED loc
     \* an unknown session id: session is null and session.context throws
     \/ ~loc[m].known /\ StoreOk /\ Goto(m, "catch") /\ UNCHANGED loc
  /\ UNCHANGED << transcript, context, generated_cvs, applications, profile >>
  /\ UNCHANGED << jobsVars, fnVars, partVars >>

\* How sendMessage ends on the CV flow path:
\*   return await this._handleCVGenerationFlow(...)
FlowReturn(m, resp) ==
  /\ Finish(m, "cv_flow", resp, "returned")
  /\ UNCHANGED transcript

\* _handleCVGenerationFlow, the cancel branch.
FlowCancel(m) ==
  /\ pc[m] = "flow"
  /\ IsCancel(loc[m].text)
  /\ \/ /\ StoreOk
        /\ context' = [context EXCEPT !.cv_generation = MarkedCompleted(loc[m].cvState)]
        /\ FlowReturn(m, "cancelled")
     \/ StoreFails /\ UNCHANGED context /\ FlowReturn(m, "rephrase")
  /\ UNCHANGED << generated_cvs, applications, profile >>
  /\ UNCHANGED << jobsVars, fnVars, partVars >>

\* processStep: const state = await this.getCVGenerationState(sessionId)
ProcessStepGet(m) ==
  /\ pc[m] = "flow"
  /\ ~IsCancel(loc[m].text)
  /\ \/ /\ StoreOk
        /\ IF context.cv_generation.present
           THEN /\ loc' = [loc EXCEPT ![m].state = context.cv_generation]
                /\ Goto(m, "parse")
                /\ UNCHANGED transcript
           ELSE FlowReturn(m, "rephrase")
     \/ StoreFails /\ FlowReturn(m, "rephrase")
  /\ UNCHANGED << context, generated_cvs, applications, profile >>
  /\ UNCHANGED << jobsVars, fnVars, partVars >>

\* processStep: parseStepInput, then the step is recorded in the local state.
ParseStepInput(m) ==
  /\ pc[m] = "parse"
  /\ \E out \in ParseOutcomes :
       IF ~ParseThrows(out)
       THEN /\ loc' = [loc EXCEPT ![m].parse = out,
                                  ![m].state =
                         ApplyStep(loc[m].state, loc[m].cvState.current_step,
                                   ParsedData(loc[m].cvState.current_step))]
            /\ Goto(m, IF HasNextStep(loc[m].cvState.current_step)
                       THEN "save" ELSE "final")
            /\ UNCHANGED transcript
       ELSE /\ pc' = [pc EXCEPT ![m] = "ret"]
            /\ loc' = [loc EXCEPT ![m].parse = out, ![m].path = "cv_flow",
                                  ![m].resp = "rephrase", ![m].outcome = "returned"]
            /\ UNCHANGED transcript
  /\ UNCHANGED << context, generated_cvs, applications, profile, failuresLeft >>
  /\ UNCHANGED << jobsVars, fnVars, partVars >>

\* processStep: await this.saveCVGenerationState(sessionId, state.user_id, state)
SaveStep(m) ==
  /\ pc[m] = "save"
  /\ \/ /\ StoreOk
        /\ context' = [context EXCEPT !.cv_generation = loc[m].state]
        /\ FlowReturn(m, "next_prompt")
     \/ StoreFails /\ UNCHANGED context /\ FlowReturn(m, "rephrase")
  /\ UNCHANGED << generated_cvs, applications, profile >>
  /\ UNCHANGED << jobsVars, fnVars, partVars >>

\* processStep, last step: generateFinalCV (content generation, then the
\* INSERT INTO generated_cvs).
GenerateFinalCV(m) ==
  /\ pc[m] = "final"
  /\ \/ /\ StoreOk
        /\ generated_cvs' = Append(generated_cvs,
                              [user_id |-> UserId, cv_data |-> loc[m].state.cv_data])
        /\ Goto(m, "mark")
        /\ UNCHANGED << loc, transcript >>
     \/ StoreFails /\ UNCHANGED generated_cvs /\ FlowReturn(m, "rephrase")
     \/ StoreOk /\ UNCHANGED generated_cvs /\ FlowReturn(m, "rephrase")
  /\ UNCHANGED << context, applications, profile >>
  /\ UNCHANGED << jobsVars, fnVars, partVars >>

\* _handleCVGenerationFlow: if (result.completed) updateContext(...)
MarkCompleted(m) ==
  /\ pc[m] = "mark"
  /\ \/ /\ StoreOk
        /\ context' = [context EXCEPT !.cv_generation = MarkedCompleted(loc[m].cvState)]
        /\ FlowReturn(m, "completed")
     \/ StoreFails /\ UNCHANGED context /\ FlowReturn(m, "rephrase")
  /\ UNCHANGED << generated_cvs, applications, profile >>
  /\ UNCHANGED << jobsVars, fnVars, partVars >>


\* A handler returns its response to sendMessage, which will append it.
Respond(m, resp) ==
  /\ loc' = [loc EXCEPT ![m].resp = resp]
  /\ Goto(m, "addAsst")

\* _handleJobsIntent: profile status, upstream fetch, last_jobs saved in the
\* context.  Every failure is caught inside the handler.
HandleJobsIntent(m) ==
  /\ pc[m] = "jobs"
  /\ \/ \E jobs \in JobLists :
          IF jobs = <<>>
          THEN StoreOk /\ UNCHANGED context /\ Respond(m, "no_jobs")
          ELSE \/ /\ StoreOk
                  /\ context' = [context EXCEPT !.last_jobs = jobs, !.intent = "jobs"]
                  /\ Respond(m, "jobs_list")
               \/ StoreFails /\ UNCHANGED context /\ Respond(m, "trouble_jobs")
     \/ StoreOk /\ UNCHANGED context /\ Respond(m, "trouble_jobs")
  /\ UNCHANGED << transcript, generated_cvs, applications, profile >>
  /\ UNCHANGED << jobsVars, fnVars, partVars >>

\* _handleCVGenerationIntent -> startCVGeneration: getCVGenerationState
StartCVGet(m) ==
  /\ pc[m] = "cvi"
  /\ \/ /\ StoreOk
        /\ loc' = [loc EXCEPT ![m].state = context.cv_generation]
        /\ Goto(m, "cvi2")
     \/ StoreFails /\ Respond(m, "trouble_cv")
  /\ UNCHANGED << transcript, context, generated_cvs, applications, profile >>
  /\ UNCHANGED << jobsVars, fnVars, partVars >>

\* Mutant of HasProgress: an existing state is not looked at.
HasProgressNever(existing) == FALSE

\* startCVGeneration: if (existing) return { ..., hasProgress: true }
HasProgress(existing) == existing.present

\* startCVGeneration after the read, and the hasProgress branches of
\* _handleCVGenerationIntent.
StartCVDecide(m) ==
  /\ pc[m] = "cvi2"
  /\ LET existing == loc[m].state
         answer(resp) ==
           /\ loc' = [loc EXCEPT ![m].resp = resp,
                                 ![m].hasProgress = HasProgress(existing)]
           /\ Goto(m, "addAsst")
         saveFresh ==
           \/ /\ StoreOk
              /\ context' = [context EXCEPT !.cv_generation = FreshCV]
              /\ answer("contact_info_prompt")
           \/ StoreFails /\ UNCHANGED context /\ answer("trouble_cv")
     IN IF ~HasProgress(existing) THEN saveFresh
        ELSE IF IsContinue(loc[m].text)
          THEN StoreOk /\ UNCHANGED context /\ answer("continue_prompt")
        ELSE IF IsStartFresh(loc[m].text) THEN saveFresh
        ELSE StoreOk /\ UNCHANGED context /\ answer("continue_or_fresh")
  /\ UNCHANGED << transcript, generated_cvs, applications, profile >>
  /\ UNCHANGED << jobsVars, fnVars, partVars >>

\* _handleJobApplicationIntent up to the profile check.
HandleJobApplicationFind(m) ==
  /\ pc[m] = "app"
  /\ LET n == JobNumber(loc[m].text)
         lastJobs == context.last_jobs
     IN IF n = -1 THEN StoreOk /\ Respond(m, "which_job")
        ELSE \/ /\ StoreOk
                /\ IF Len(lastJobs) = 0 THEN Respond(m, "no_recent_jobs")
                   ELSE IF n \notin 1..Len(lastJobs) THEN Respond(m, "job_not_found")
                   ELSE IF ~ProfileSufficient(profile)
                     THEN Respond(m, "profile_incomplete")
                   ELSE /\ loc' = [loc EXCEPT ![m].job = lastJobs[n]]
                        /\ Goto(m, "app_create")
             \/ StoreFails /\ Respond(m, "trouble_apply")
             \/ StoreOk /\ Respond(m, "trouble_apply")
  /\ UNCHANGED << transcript, context, generated_cvs, applications, profile >>
  /\ UNCHANGED << jobsVars, fnVars, partVars >>

\* _handleJobApplicationIntent: JobApplication.create.  The unique key
\* (job_id, user_id) rejects a second row; the handler's catch answers every
\* failure the same way.
HandleJobApplicationCreate(m) ==
  /\ pc[m] = "app_create"
  /\ LET row == <<loc[m].job, UserId>>
     IN \/ /\ ~UniqueKeyRejects(applications, row)
           /\ StoreOk
           /\ applications' = Append(applications, row)
           /\ Respond(m, "applied")
        \/ /\ ~UniqueKeyRejects(applications, row)
           /\ StoreFails
           /\ \/ applications' = Append(applications, row)
              \/ UNCHANGED applications
           /\ Respond(m, "trouble_apply")
        \/ /\ UniqueKeyRejects(applications, row)
           /\ StoreOk
           /\ UNCHANGED applications
           /\ loc' = [loc EXCEPT ![m].resp = "trouble_apply", ![m].dup = TRUE]
           /\ Goto(m, "addAsst")
  /\ UNCHANGED << transcript, context, generated_cvs, profile >>
  /\ UNCHANGED << jobsVars, fnVars, partVars >>

\* _handleGeneralIntent: profile status and the session read.  The handler
\* has no catch of its own.
HandleGeneralIntentFind(m) ==
  /\ pc[m] = "gen"
  /\ \/ StoreOk /\ Goto(m, "gen2")
     \/ StoreFails /\ Goto(m, "catch")
     \/ StoreOk /\ Goto(m, "catch")
  /\ UNCHANGED << loc, transcript, context, generated_cvs, applications, profile >>
  /\ UNCHANGED << jobsVars, fnVars, partVars >>

\* _handleGeneralIntent: the generated answer and the context update.
HandleGeneralIntentUpdate(m) ==
  /\ pc[m] = "gen2"
  /\ \/ /\ StoreOk
        /\ context' = [context EXCEPT !.last_profile_completion = profile,
                                      !.topics_discussed = ExtractTopics(loc[m].text)]
        /\ Respond(m, "answer")
     \/ StoreFails /\ UNCHANGED << context, loc >> /\ Goto(m, "catch")
     \/ StoreOk /\ UNCHANGED << context, loc >> /\ Goto(m, "catch")
  /\ UNCHANGED << transcript, generated_cvs, applications, profile >>
  /\ UNCHANGED << jobsVars, fnVars, partVars >>

\* await ChatSession.addMessage(sessionId, finalMessage, 'assistant'); return
AddAssistantMessage(m) ==
  /\ pc[m] = "addAsst"
  /\ \/ /\ StoreOk
        /\ addMessage("assistant", m)
        /\ Finish(m, loc[m].path, loc[m].resp, "returned")
     \/ StoreFails /\ UNCHANGED << transcript, loc >> /\ Goto(m, "catch")
  /\ UNCHANGED << context, generated_cvs, applications, profile >>
  /\ UNCHANGED << jobsVars, fnVars, partVars >>

\* sendMessage's catch: the apology is appended and returned; a failure of
\* that append leaves the function as a rejection.
SendMessageCatch(m) ==
  /\ pc[m] = "catch"
  /\ \/ /\ loc[m].known
        /\ StoreOk
        /\ addMessage("assistant", m)
        /\ Finish(m, loc[m].path, "error_generic", "returned")
     \/ /\ StoreFails
        /\ UNCHANGED transcript
        /\ Finish(m, loc[m].path, "error_generic", "threw")
     \* an unknown session id: the store changes no row, or rejects the call
     \/ /\ ~loc[m].known
        /\ StoreOk
        /\ UNCHANGED transcript
        /\ \/ Finish(m, loc[m].path, "error_generic", "returned")
           \/ Finish(m, loc[m].path, "error_generic", "threw")
  /\ UNCHANGED << context, generated_cvs, applications, profile >>
  /\ UNCHANGED << jobsVars, fnVars, partVars >>

(***************************************************************************)
(* The session specifications.                                             *)
(***************************************************************************)
ChatInit(levels, failures) ==
  /\ pc = [m \in Msgs |-> "idle"]
  /\ loc = [m \in Msgs |-> NoLoc]
  /\ transcript = <<>>
  /\ context = InitContext
  /\ generated_cvs = <<>>
  /\ applications = <<>>
  /\ profile \in levels
  /\ failuresLeft = failures

JobsIdle ==
  /\ apiToken = 0
  /\ tokenExpiry = 0
  /\ now = 0
  /\ hasCreds = TRUE
  /\ issued = 0
  /\ calls = 0
  /\ jc = <<>>

SeqInit == ChatInit(ProfileLevels, MaxStoreFailures) /\ JobsIdle /\ FnIdle

\* The response has been sent; the call's frame is gone.
Return(m) ==
  /\ pc[m] = "ret"
  /\ pc' = [pc EXCEPT ![m] = "done"]
  /\ loc' = [loc EXCEPT ![m] = NoLoc]
  /\ UNCHANGED << transcript, context, generated_cvs, applications, profile,
                  failuresLeft >>
  /\ UNCHANGED << jobsVars, fnVars, partVars >>

\* The steps every text can take: the CV flow, the cv_generation and general
\* handlers, the transcript appends.
HandleCv(m) ==
  \/ AddUserMessage(m)
  \/ LoadSession(m)
  \/ FlowCancel(m)
  \/ ProcessStepGet(m)
  \/ ParseStepInput(m)
  \/ SaveStep(m)
  \/ StartCVGet(m)
  \/ StartCVDecide(m)
  \/ HandleGeneralIntentFind(m)
  \/ HandleGeneralIntentUpdate(m)
  \/ AddAssistantMessage(m)
  \/ SendMessageCatch(m)
  \/ Return(m)

\* The last step of the CV flow.
HandleFinal(m) ==
  \/ GenerateFinalCV(m)
  \/ MarkCompleted(m)

\* The steps only job texts take.
HandleJobs(m) ==
  \/ HandleJobsIntent(m)
  \/ HandleJobApplicationFind(m)
  \/ HandleJobApplicationCreate(m)

Handle(m) == HandleCv(m) \/ HandleJobs(m)

HandleCvFlow(m) == HandleCv(m) \/ HandleFinal(m)

\* The texts of a CV conversation.
CvTexts == { CreateACv, RestartCv, StepAnswer, CancelText }

CvNext ==
  \E m \in Msgs : Receive(m, MaxMsgs, 1, CvTexts, {TRUE}) \/ HandleCvFlow(m)

CvInit == ChatInit({80}, MaxCvStoreFailures) /\ JobsIdle /\ FnIdle

CvSpec == CvInit /\ [][CvNext]_vars

SeqNext ==
  \E m \in Msgs : Receive(m, MaxSeqMsgs, 1, Texts, BOOLEAN) \/ Handle(m)

SeqSpec == SeqInit /\ [][SeqNext]_vars


\* The texts of the concurrent runs.
ConcTexts == { CreateACv, StepAnswer, CancelText, ShowJobs, ApplyJob1 }

Init == ChatInit({80}, MaxConcStoreFailures) /\ JobsIdle /\ FnIdle

Next ==
  \E m \in Msgs :
    Receive(m, MaxConcMsgs, MaxInflight, ConcTexts, {TRUE}) \/ Handle(m)

Spec == Init /\ [][Next]_vars


\* The jobs an application can name.
RouteJobs == {101, 102}

\* POST /:job_id/apply: JobApplication.create for the user.  The route's
\* hasApplied check comes two awaits before the INSERT, so the INSERT can be
\* attempted whatever the table holds by then; a rejected INSERT changes
\* nothing.
ApplyRoute(job) ==
  /\ Len(applications) < MaxApplications
  /\ ~UniqueKeyRejects(applications, <<job, UserId>>)
  /\ applications' = Append(applications, <<job, UserId>>)
  /\ UNCHANGED << pc, loc, transcript, context, generated_cvs, profile, failuresLeft >>
  /\ UNCHANGED << jobsVars, fnVars, partVars >>

\* The steps of the messages that show jobs and apply to them.
HandleApply(m) ==
  \/ AddUserMessage(m)
  \/ LoadSession(m)
  \/ HandleJobs(m)
  \/ AddAssistantMessage(m)
  \/ SendMessageCatch(m)
  \/ Return(m)

ApplyTexts == { ShowJobs, ApplyJob1 }

ApplyInit == ChatInit({80}, MaxConcStoreFailures) /\ JobsIdle /\ FnIdle

ApplyNext ==
  \/ \E m \in Msgs :
       Receive(m, MaxConcMsgs, MaxInflight, ApplyTexts, {TRUE}) \/ HandleApply(m)
  \/ \E job \in RouteJobs : ApplyRoute(job)

\* Concurrent applications: through the chat and through the apply route.
ApplySpec == ApplyInit /\ [][ApplyNext]_vars

(***************************************************************************)
(* The upstream jobs client: token cache and _fetchRealtimeJobs.           *)
(* Time is counted in minutes.                                             *)
(***************************************************************************)
\* this.tokenExpiry = Date.now() + (3600 * 1000)
TokenTTL == 60

\* Date.now() < (this.tokenExpiry - 300000)
ExpiryBuffer == 5

JobCallers == 1..NumCallers

\* Mutant of CachedTokenValid: the five-minute margin is left out.
CachedTokenValidNoMargin(tok, exp, t) == tok # 0 /\ exp # 0 /\ t < exp

\* Mutant of CachedTokenValid: the boundary instant still counts as valid.
CachedTokenValidInclusive(tok, exp, t) == tok # 0 /\ exp # 0 /\ t <= exp - ExpiryBuffer

\* _getAPIToken: this.apiToken && this.tokenExpiry && Date.now() < expiry - 5min
CachedTokenValid(tok, exp, t) == tok # 0 /\ exp # 0 /\ t < exp - ExpiryBuffer

\* _getAPIToken up to its first await: the cached token is returned, or (no
\* credentials) the cache is cleared and null returned, or a login is sent.
TokenDecision(tok, exp, t) ==
  IF CachedTokenValid(tok, exp, t) THEN "cached"
  ELSE IF ~hasCreds THEN "nocreds"
  ELSE "login"

\* Mutant of Invalidated: the 401 branch leaves the cache as it is.
NotInvalidated == [apiToken |-> apiToken, tokenExpiry |-> tokenExpiry]

\* _fetchRealtimeJobs on 401: this.apiToken = null; this.tokenExpiry = null
Invalidated == [apiToken |-> 0, tokenExpiry |-> 0]

\* What the login endpoint answers: a body with a token, a 2xx body without
\* one, a non-2xx status, or no answer (network error).
LoginOutcomes == {"token", "notoken", "rejected", "neterror"}

\* A JSON value of an upstream record: an absent field (undefined), null, an
\* integer or a string.  NaN is what Number and parseInt give for a text that
\* is no number.
Undef == [t |-> "undefined", n |-> 0, s |-> ""]
Null == [t |-> "null", n |-> 0, s |-> ""]
NaN == [t |-> "nan", n |-> 0, s |-> ""]
Num(n) == [t |-> "num", n |-> n, s |-> ""]
Str(s) == [t |-> "str", n |-> 0, s |-> s]

\* a ?? b
Coalesce(a, b) == IF a.t \in {"undefined", "null"} THEN b ELSE a

\* The truthiness of a value: undefined, null, NaN, 0 and "" are falsy.
Truthy(v) ==
  CASE v.t = "num" -> v.n # 0
    [] v.t = "str" -> v.s # ""
    [] OTHER -> FALSE

\* a || b
OrElse(a, b) == IF Truthy(a) THEN a ELSE b

\* The decimal texts of the vocabulary and the integers they denote.
DecimalTexts == {"1000", "2", "0", "-5"}

DecimalOf(s) ==
  CASE s = "1000" -> 1000
    [] s = "2" -> 2
    [] s = "0" -> 0
    [] s = "-5" -> 0 - 5

\* Number(val)
Number(v) ==
  CASE v.t = "num" -> v
    [] v.t = "null" -> Num(0)
    [] v.t = "str" /\ v.s = "" -> Num(0)
    [] v.t = "str" /\ v.s \in DecimalTexts -> Num(DecimalOf(v.s))
    [] OTHER -> NaN

\* parseInt(val, 10)
parseInt(v) ==
  CASE v.t = "num" -> v
    [] v.t = "str" /\ v.s \in DecimalTexts -> Num(DecimalOf(v.s))
    [] OTHER -> NaN

\* _parseNumber: null for null, undefined and '', else the number when it is
\* finite and not negative, else null.
_parseNumber(val) ==
  IF val.t \in {"null", "undefined"} \/ val = Str("") THEN Null
  ELSE LET num == Number(val)
       IN IF num.t = "num" /\ num.n >= 0 THEN num ELSE Null

\* An upstream record none of whose fields is present.
NoFields ==
  [ id |-> Undef, job_id |-> Undef, ID |-> Undef, status |-> Undef,
    salary_min |-> Undef, min_salary |-> Undef, minSalary |-> Undef,
    salary_max |-> Undef, max_salary |-> Undef, maxSalary |-> Undef,
    positions_available |-> Undef, openings |-> Undef, slots |-> Undef,
    positions_filled |-> Undef, filled |-> Undef,
    posted_date |-> Undef, created_at |-> Undef, date_posted |-> Undef,
    views |-> Undef, applications_count |-> Undef ]

\* An upstream record with an id, a status and the two position counts.
RawJob(id, status, slots, filled) ==
  [NoFields EXCEPT !.id = id, !.status = status, !.positions_available = slots,
                   !.positions_filled = filled]

RawJobs ==
  << RawJob(Num(7), Undef, Num(2), Undef),
     RawJob(Undef, Str("active"), Num(1), Num(0)),
     RawJob(Num(8), Str("Closed"), Num(3), Num(0)),
     RawJob(Num(9), Str("active"), Num(2), Num(2)) >>

\* Response bodies of the jobs endpoint.
Bodies ==
  { [kind |-> "array", items |-> RawJobs],
    [kind |-> "wrapped", items |-> SubSeq(RawJobs, 1, 2)],
    [kind |-> "array", items |-> <<>>],
    [kind |-> "object", items |-> <<>>],
    [kind |-> "unparseable", items |-> <<>>] }

\* Answers of the jobs endpoint: a status with a body, or no answer at all
\* (network error, or the abort of the 15 s timer).
JobsResponses ==
  [status : {"200"}, body : Bodies]
    \cup [status : {"401", "403", "500"},
          body : {[kind |-> "unparseable", items |-> <<>>]}]
    \cup [status : {"neterror"}, body : {[kind |-> "unparseable", items |-> <<>>]}]

\* What _normalizeJob returns for a record it drops (null).
NullJob == [null |-> TRUE]

\* String.prototype.toLowerCase on a status of the vocabulary.
LowerStatus(st) ==
  CASE st = "Closed" -> "closed"
    [] st = "Active" -> "active"
    [] OTHER -> st

\* new Date().toISOString() at the time of the call
NowISO == "2026-01-01T00:00:00.000Z"

\* return job.id ? job : null
HasId(id) == Truthy(id)

\* _normalizeJob, for the id, the status, the numeric fields and the date.
_normalizeJob(raw) ==
  LET job ==
        [ id |-> Coalesce(raw.id, Coalesce(raw.job_id, Coalesce(raw.ID, Null))),
          salary_min |->
            _parseNumber(Coalesce(raw.salary_min, Coalesce(raw.min_salary, raw.minSalary))),
          salary_max |->
            _parseNumber(Coalesce(raw.salary_max, Coalesce(raw.max_salary, raw.maxSalary))),
          status |-> LowerStatus(Coalesce(raw.status, Str("active")).s),
          positions_available |->
            OrElse(parseInt(Coalesce(raw.positions_available,
                              Coalesce(raw.openings, Coalesce(raw.slots, Num(1))))),
                   Num(1)),
          positions_filled |->
            OrElse(parseInt(Coalesce(raw.positions_filled, Coalesce(raw.filled, Num(0)))),
                   Num(0)),
          posted_date |->
            Coalesce(raw.posted_date,
              Coalesce(raw.created_at, Coalesce(raw.date_posted, Str(NowISO)))),
          views |-> OrElse(parseInt(Coalesce(raw.views, Num(0))), Num(0)),
          applications_count |->
            OrElse(parseInt(Coalesce(raw.applications_count, Num(0))), Num(0)) ]
  IN IF HasId(job.id) THEN job ELSE NullJob

\* The statuses the last filter of _processJobsResponse drops.
ClosedStatuses == {"inactive", "closed", "expired", "deleted"}

\* The last filter of _processJobsResponse (the call carries no category,
\* location or work_type filter).
KeepsJob(j) ==
  /\ (IF j.status = "" THEN "active" ELSE j.status) \notin ClosedStatuses
  /\ \/ ~Truthy(j.positions_available)
     \/ j.positions_available.n > OrElse(j.positions_filled, Num(0)).n

\* if (normalized) normalizedJobs.push(normalized)
IsJob(j) == j # NullJob

\* Array.isArray(rawData) ? rawData : Array.isArray(rawData?.data) ? ... : []
JobsArrayOf(body) == IF body.kind \in {"array", "wrapped"} THEN body.items ELSE <<>>

\* _processJobsResponse: the records are normalized and filtered in the order
\* of the upstream array; the result is returned as it stands.
_processJobsResponse(body) ==
  LET arr == JobsArrayOf(body)
      normalized == [i \in 1..Len(arr) |-> _normalizeJob(arr[i])]
  IN SelectSeq(SelectSeq(normalized, IsJob), KeepsJob)

NoCall ==
  [ pc |-> "idle", token |-> 0, fresh |-> 0, at |-> 0, had |-> 0, exp |-> 0,
    cached |-> FALSE, reqs |-> 0, logins |-> 0, refreshes |-> 0,
    first |-> "none", retry |-> "none", invalidated |-> FALSE,
    result |-> <<>>, outcome |-> "none" ]

\* Mutant of CatchOutcome: the catch of _fetchRealtimeJobs rethrows.
CatchRethrows == "threw"

\* The catch of _fetchRealtimeJobs: the error is logged and [] returned.
CatchOutcome == "returned"

\* _fetchRealtimeJobs is called: _getAPIToken runs up to its first await, and
\* with a token (or none) in hand the first request is sent.
JobsCall(c) ==
  /\ jc[c].pc = "idle"
  /\ calls < MaxCalls
  /\ calls' = calls + 1
  /\ LET d == TokenDecision(apiToken, tokenExpiry, now)
         j == [NoCall EXCEPT !.at = now, !.had = apiToken, !.exp = tokenExpiry]
     IN CASE d = "cached" ->
               /\ jc' = [jc EXCEPT ![c] = [j EXCEPT !.pc = "fetch1", !.token = apiToken,
                                                   !.cached = TRUE, !.reqs = 1]]
               /\ UNCHANGED << apiToken, tokenExpiry >>
          [] d = "nocreds" ->
               /\ jc' = [jc EXCEPT ![c] = [j EXCEPT !.pc = "fetch1", !.reqs = 1]]
               /\ apiToken' = 0
               /\ tokenExpiry' = 0
          [] OTHER ->
               /\ jc' = [jc EXCEPT ![c] = [j EXCEPT !.pc = "login1", !.logins = 1]]
               /\ UNCHANGED << apiToken, tokenExpiry >>
  /\ UNCHANGED << now, hasCreds, issued >>
  /\ UNCHANGED << chatVars, fnVars, partVars >>

\* _getAPIToken after the login fetch: the token is cached for an hour, or
\* the cache is cleared and null returned; the caller then sends its request.
LoginResponse(c) ==
  /\ jc[c].pc \in {"login1", "login2"}
  /\ \E out \in LoginOutcomes :
       LET tok == IF out = "token" THEN issued + 1 ELSE 0 IN
       /\ apiToken' = tok
       /\ tokenExpiry' = IF out = "token" THEN now + TokenTTL ELSE 0
       /\ issued' = IF out = "token" THEN issued + 1 ELSE issued
       /\ jc' = [jc EXCEPT ![c] =
                   IF jc[c].pc = "login1"
                   THEN [@ EXCEPT !.pc = "fetch1", !.token = tok, !.reqs = 1]
                   ELSE [@ EXCEPT !.pc = "fetch2", !.fresh = tok, !.reqs = @ + 1]]
  /\ UNCHANGED << now, hasCreds, calls >>
  /\ UNCHANGED << chatVars, fnVars, partVars >>

\* Mutant of RetriesAfter: every 401 is retried, token or not.
RetriesAfterAny401(status, token) == status = "401"

\* if (resp.status === 401 && token)
RetriesAfter(status, token) == status = "401" /\ token # 0

\* The answer to the first request: 401 with a token sent invalidates the
\* cache and asks _getAPIToken again; any other failure lands in the catch.
FirstResponse(c) ==
  /\ jc[c].pc = "fetch1"
  /\ \E r \in JobsResponses :
       IF RetriesAfter(r.status, jc[c].token)
       THEN LET inv == Invalidated
                d == TokenDecision(inv.apiToken, inv.tokenExpiry, now)
                j == [jc[c] EXCEPT !.first = r.status,
                                   !.invalidated = (inv.apiToken = 0)]
            IN CASE d = "cached" ->
                      /\ jc' = [jc EXCEPT ![c] =
                                  [j EXCEPT !.pc = "fetch2", !.fresh = inv.apiToken,
                                            !.reqs = @ + 1]]
                      /\ apiToken' = inv.apiToken
                      /\ tokenExpiry' = inv.tokenExpiry
                 [] d = "nocreds" ->
                      /\ jc' = [jc EXCEPT ![c] = [j EXCEPT !.pc = "fetch2", !.reqs = @ + 1]]
                      /\ apiToken' = 0
                      /\ tokenExpiry' = 0
                 [] OTHER ->
                      /\ jc' = [jc EXCEPT ![c] =
                                  [j EXCEPT !.pc = "login2", !.logins = @ + 1,
                                            !.refreshes = @ + 1]]
                      /\ apiToken' = inv.apiToken
                      /\ tokenExpiry' = inv.tokenExpiry
       ELSE /\ jc' = [jc EXCEPT ![c] =
                        IF r.status = "200"
                        THEN [@ EXCEPT !.pc = "ret", !.first = r.status,
                                       !.result = _processJobsResponse(r.body),
                                       !.outcome = "returned"]
                        ELSE [@ EXCEPT !.pc = "ret", !.first = r.status,
                                       !.result = <<>>, !.outcome = CatchOutcome]]
            /\ UNCHANGED << apiToken, tokenExpiry >>
  /\ UNCHANGED << now, hasCreds, issued, calls >>
  /\ UNCHANGED << chatVars, fnVars, partVars >>

\* setTimeout(() => controller.abort(), 15000): the first request, still
\* unanswered, is aborted; fetch rejects and the catch returns [].  The login
\* request and the retry are sent without a signal.
FetchTimeout(c) ==
  /\ jc[c].pc = "fetch1"
  /\ jc' = [jc EXCEPT ![c] = [@ EXCEPT !.pc = "ret", !.first = "aborted",
                                       !.result = <<>>, !.outcome = CatchOutcome]]
  /\ UNCHANGED << apiToken, tokenExpiry, now, hasCreds, issued, calls >>
  /\ UNCHANGED << chatVars, fnVars, partVars >>

\* The answer to the retry: the jobs, or the catch.
RetryResponse(c) ==
  /\ jc[c].pc = "fetch2"
  /\ \E r \in JobsResponses :
       jc' = [jc EXCEPT ![c] =
                IF r.status = "200"
                THEN [@ EXCEPT !.pc = "ret", !.retry = r.status,
                               !.result = _processJobsResponse(r.body),
                               !.outcome = "returned"]
                ELSE [@ EXCEPT !.pc = "ret", !.retry = r.status,
                               !.result = <<>>, !.outcome = CatchOutcome]]
  /\ UNCHANGED << apiToken, tokenExpiry, now, hasCreds, issued, calls >>
  /\ UNCHANGED << chatVars, fnVars, partVars >>

\* The caller has its list; the call's frame is gone.
JobsReturn(c) ==
  /\ jc[c].pc = "ret"
  /\ jc' = [jc EXCEPT ![c] = NoCall]
  /\ UNCHANGED << apiToken, tokenExpiry, now, hasCreds, issued, calls >>
  /\ UNCHANGED << chatVars, fnVars, partVars >>

\* The instants at which the clock is read: the first two minutes, and the
\* minutes around the end of the validity of a token obtained in them.
Instants == {0, 1} \cup ((TokenTTL - ExpiryBuffer - 1)..MaxTime)

\* Time passes, up to the next instant.
Tick ==
  /\ now < MaxTime
  /\ now' = CHOOSE t \in Instants : t > now /\ \A u \in Instants : u > now => t <= u
  /\ UNCHANGED << apiToken, tokenExpiry, hasCreds, issued, calls, jc >>
  /\ UNCHANGED << chatVars, fnVars, partVars >>

ChatIdle ==
  /\ pc = [m \in Msgs |-> "idle"]
  /\ loc = [m \in Msgs |-> NoLoc]
  /\ transcript = <<>>
  /\ context = InitContext
  /\ generated_cvs = <<>>
  /\ applications = <<>>
  /\ profile = 80
  /\ failuresLeft = 0

JobsInit ==
  /\ ChatIdle
  /\ FnIdle
  /\ apiToken = 0
  /\ tokenExpiry = 0
  /\ now = 0
  /\ hasCreds \in BOOLEAN
  /\ issued = 0
  /\ calls = 0
  /\ jc = [c \in JobCallers |-> NoCall]

JobsNext ==
  \/ \E c \in JobCallers :
       JobsCall(c) \/ LoginResponse(c) \/ FirstResponse(c) \/ FetchTimeout(c)
         \/ RetryResponse(c) \/ JobsReturn(c)
  \/ Tick

JobsSpec == JobsInit /\ [][JobsNext]_vars

\* The runs in which the upstream may never answer: only the steps the
\* process takes by itself are fair, the abort timer of the first request and
\* the return to the caller.
JobsLiveSpec ==
  /\ JobsInit
  /\ [][JobsNext]_vars
  /\ \A c \in JobCallers : WF_vars(FetchTimeout(c)) /\ WF_vars(JobsReturn(c))

(***************************************************************************)
(* Claims about the session: transcript, CV state machine, error paths.    *)
(***************************************************************************)
Alternates(t) ==
  \A i \in 1..Len(t) : t[i][1] = (IF i % 2 = 1 THEN "user" ELSE "assistant")

NoStoreFailureYet == failuresLeft = MaxStoreFailures

\* C1: every handled message leaves its user turn followed by exactly one
\* assistant turn at the end of the transcript, whichever path handled it, and
\* between messages the transcript alternates user, assistant.  Stated for
\* runs in which no database call has failed.
C1_OneAssistantTurnPerMessage ==
  NoStoreFailureYet =>
    /\ \A m \in Msgs :
         (pc[m] = "ret" /\ loc[m].known) =>
           /\ Len(transcript) >= 2
           /\ transcript[Len(transcript) - 1] = <<"user", m>>
           /\ transcript[Len(transcript)] = <<"assistant", m>>
    /\ (Inflight = {} => Alternates(transcript))

\* C2: completed_steps is exactly the canonical order before current_step.
C2_CompletedStepsIsPrefix ==
  LET cv == context.cv_generation IN
  cv.present =>
    cv.completed_steps = SubSeq(steps, 1, IndexOf(cv.current_step) - 1)

\* C2 witness: a flow that was parsed through to the last step, with a failed
\* step (a database call failed) on the way.
C2_Witness ==
  /\ context.cv_generation.present
  /\ context.cv_generation.current_step = "languages"
  /\ Len(context.cv_generation.completed_steps) = 6
  /\ failuresLeft < MaxCvStoreFailures

\* C3: once the last step has been processed and the flow marked completed,
\* the persisted state holds the languages payload, all seven steps and
\* completed = true.
C3_LastStepPersisted ==
  \A m \in Msgs :
    (pc[m] = "ret" /\ loc[m].resp = "completed") =>
      /\ context.cv_generation.cv_data["languages"] # 0
      /\ context.cv_generation.completed_steps = steps
      /\ context.cv_generation.completed

\* C7: a later message of the session is not handled (its transcript append
\* has not happened) before every earlier message has been answered.
C7_SerializedPerSession ==
  \A m1, m2 \in Msgs :
    (m1 < m2 /\ pc[m2] \notin {"idle", "addUser"}) => pc[m1] \in {"ret", "done"}

\* C9: sendMessage, called for an existing session, never ends by throwing.
C9_NeverThrows ==
  \A m \in Msgs : (pc[m] = "ret" /\ loc[m].known) => loc[m].outcome = "returned"

\* C10: "create my cv" on a session without CV state, handled without an
\* error, is classified as cv_generation and creates the state at
\* contact_info; the next message,
\* when its step input parses, leaves professional_summary as current step
\* and [contact_info] as completed steps.
C10_CreateMyCvStartsFlow ==
  \A m \in Msgs :
    /\ ( /\ pc[m] = "ret"
         /\ loc[m].text = CreateMyCv
         /\ ~loc[m].cvState.present
         /\ loc[m].resp # "error_generic"
         /\ NoStoreFailureYet )
       => /\ loc[m].path = "cv_generation"
          /\ context.cv_generation = FreshCV
    /\ ( /\ pc[m] = "ret"
         /\ loc[m].cvState = FreshCV
         /\ loc[m].resp = "next_prompt" )
       => /\ context.cv_generation.current_step = "professional_summary"
          /\ context.cv_generation.completed_steps = <<"contact_info">>


(***************************************************************************)
(* Claims about the upstream jobs client (JobsSpec).                       *)
(***************************************************************************)
\* The status of the response that decided the call.
FinalStatus(j) == IF j.reqs = 2 THEN j.retry ELSE j.first

\* C4: a 401 answer to a jobs request that carried a token invalidates the
\* cached token, asks for a fresh one (one login, where credentials exist) and
\* retries the request exactly once, never with the invalidated token; when the
\* retry is not a 2xx either the call ends with the empty list; and no call
\* sends more than two jobs requests.
C4_RetryOnceOn401 ==
  \A c \in JobCallers :
    LET j == jc[c] IN
    /\ j.reqs <= 2
    /\ (j.first = "401" /\ j.token # 0) =>
         /\ j.invalidated
         /\ j.pc \in {"login2", "fetch2", "ret"}
         /\ j.refreshes = 1
         /\ j.pc \in {"fetch2", "ret"} => (j.reqs = 2 /\ j.fresh # j.token)
         /\ j.pc = "ret" =>
              /\ j.outcome = "returned"
              /\ j.retry # "none"
              /\ j.retry # "200" => j.result = <<>>

\* A call whose token-carrying request and whose retry were both answered 401
\* has ended, after two requests, with the empty list.
C4_Witness ==
  \E c \in JobCallers :
    /\ jc[c].pc = "ret"
    /\ jc[c].token # 0
    /\ jc[c].first = "401"
    /\ jc[c].fresh # 0
    /\ jc[c].retry = "401"
    /\ jc[c].reqs = 2
    /\ jc[c].result = <<>>

\* C5 as stated: with a token cached at t (expiry t + 60 min), a fetch at
\* t + 55 min reuses it without a login, and a fetch at t + 56 min logs in.
C5_ReuseAt55LoginAt56 ==
  \A c \in JobCallers :
    LET j == jc[c] IN
    (j.pc # "idle" /\ j.had # 0 /\ j.exp # 0) =>
      /\ j.at = (j.exp - TokenTTL) + 55 => (j.cached /\ j.logins = 0)
      /\ j.at = (j.exp - TokenTTL) + 56 => (~j.cached /\ j.logins >= 1)

\* C5, amended: with a token cached at t, a fetch before t + 55 min reuses it
\* and sends its first request without a login; a fetch at t + 55 min or later
\* (t + 56 min included) does not reuse it and logs in first.
C5_ReuseBefore55LoginFrom55 ==
  \A c \in JobCallers :
    LET j == jc[c] IN
    (j.pc # "idle" /\ j.had # 0 /\ j.exp # 0) =>
      /\ j.at <= (j.exp - TokenTTL) + 54 =>
           (j.cached /\ j.token = j.had /\ j.logins = j.refreshes)
      /\ j.at >= (j.exp - TokenTTL) + 55 =>
           (~j.cached /\ j.logins = j.refreshes + 1)

\* A fetch made exactly 55 minutes after the token was cached has logged in
\* rather than reuse it.
C5_Witness ==
  \E c \in JobCallers :
    /\ jc[c].had # 0
    /\ jc[c].at = (jc[c].exp - TokenTTL) + 55
    /\ ~jc[c].cached
    /\ jc[c].logins = 1
    /\ jc[c].pc = "fetch1"

\* C6: at most one login request is in flight at any time.
C6_SingleLoginInFlight ==
  Cardinality({c \in JobCallers : jc[c].pc \in {"login1", "login2"}}) <= 1

\* C8: _fetchRealtimeJobs always hands its caller a list: whatever the login
\* and the jobs requests answered, the call returns and never throws, and when
\* the deciding request failed the list is empty.
C8_AlwaysReturnsList ==
  \A c \in JobCallers :
    LET j == jc[c] IN
    j.pc = "ret" =>
      /\ j.outcome = "returned"
      /\ j.result \in Seq({_normalizeJob(RawJobs[i]) : i \in 1..Len(RawJobs)})
      /\ FinalStatus(j) # "200" => j.result = <<>>

\* A call whose login failed and whose only request got no answer has ended
\* with the empty list.
C8_Witness ==
  \E c \in JobCallers :
    /\ jc[c].pc = "ret"
    /\ hasCreds
    /\ jc[c].logins = 1
    /\ jc[c].token = 0
    /\ jc[c].first = "neterror"
    /\ jc[c].outcome = "returned"
    /\ jc[c].result = <<>>

(***************************************************************************)
(* Claims about routing, the CV steps and job applications.                *)
(***************************************************************************)
\* C11: a message whose session read found a CV state with a current step and
\* completed not true is handled by the CV flow: no intent is computed for
\* it, and it is at no step of the jobs, job_application, cv_generation or
\* general handlers, whatever its text.
C11_ActiveCvFlowTakesEveryMessage ==
  \A m \in Msgs :
    LET cv == loc[m].cvState IN
    (cv.present /\ cv.current_step \in StepSet /\ ~cv.completed) =>
      /\ loc[m].path = "cv_flow"
      /\ loc[m].intent = "none"
      /\ pc[m] \in {"flow", "parse", "save", "final", "mark", "ret"}

\* A message asking for jobs, received while the CV flow was active, has been
\* answered by the CV flow.
C11_Witness ==
  \E m \in Msgs :
    /\ pc[m] = "ret"
    /\ loc[m].text = ShowJobs
    /\ loc[m].cvState.present
    /\ ~loc[m].cvState.completed
    /\ loc[m].path = "cv_flow"

\* C12: when parsing the step input has failed (the generation call failed,
\* its answer holds no JSON object, or one that does not parse), the message
\* is answered with the failure and the persisted CV state is what it was
\* before the message: same current_step, completed_steps and cv_data, and
\* still in progress.
C12_ParseFailureLeavesStateUnchanged ==
  \A m \in Msgs :
    (pc[m] = "ret" /\ loc[m].parse \in {"nojson", "badjson", "fail"}) =>
      /\ loc[m].resp = "rephrase"
      /\ context.cv_generation = loc[m].cvState
      /\ context.cv_generation.present
      /\ ~context.cv_generation.completed
      /\ context.cv_generation.current_step = loc[m].cvState.current_step

\* An answer to the education step that held unparseable JSON has been
\* refused; the three earlier steps are the completed ones.
C12_Witness ==
  \E m \in Msgs :
    /\ pc[m] = "ret"
    /\ loc[m].parse = "badjson"
    /\ loc[m].cvState.current_step = "education"
    /\ context.cv_generation.current_step = "education"
    /\ Len(context.cv_generation.completed_steps) = 3

\* C13: a message with a cancel phrase, received while the CV flow is in
\* progress, is answered in one step of the flow (processStep is not called):
\* unless that store call fails, the persisted CV state becomes the same
\* state with completed = true (current_step, completed_steps and cv_data
\* untouched), and no CV is added to the generated ones.
C13_CancelKeepsRecordedData ==
  [][ \A m \in Msgs :
        (pc[m] = "flow" /\ IsCancel(loc[m].text) /\ pc'[m] # pc[m]) =>
          /\ pc'[m] = "ret"
          /\ loc'[m].state = NoCV
          /\ loc'[m].parse = "none"
          /\ generated_cvs' = generated_cvs
          /\ failuresLeft' = failuresLeft =>
               /\ loc'[m].resp = "cancelled"
               /\ context'.cv_generation =
                    [context.cv_generation EXCEPT !.completed = TRUE]
               /\ context'.cv_generation.completed
    ]_vars

\* The flow was cancelled at the skills step: the state is completed and
\* keeps the four steps answered before.
C13_Witness ==
  \E m \in Msgs :
    /\ pc[m] = "ret"
    /\ loc[m].resp = "cancelled"
    /\ context.cv_generation.completed
    /\ context.cv_generation.current_step = "skills"
    /\ context.cv_generation.completed_steps = SubSeq(steps, 1, 4)
    /\ context.cv_generation.cv_data["education"] # 0
    /\ generated_cvs = <<>>

\* C14: startCVGeneration, when its read found no CV state, saves the state
\* {current_step: contact_info, completed_steps: [], cv_data: {}} and returns
\* hasProgress = false; when its read found a state that is not completed, it
\* returns hasProgress = true and writes nothing (the only write of that step
\* is the start-fresh branch of the handler, taken on the user's request).
C14_StartCreatesOrReportsProgress ==
  [][ \A m \in Msgs :
        (pc[m] = "cvi2" /\ pc'[m] # pc[m]) =>
          LET existing == loc[m].state IN
          /\ ~existing.present =>
               /\ ~loc'[m].hasProgress
               /\ failuresLeft' = failuresLeft =>
                    /\ context'.cv_generation =
                         [ present |-> TRUE, current_step |-> "contact_info",
                           completed_steps |-> <<>>,
                           cv_data |-> [s \in StepSet |-> 0], completed |-> FALSE ]
                    /\ loc'[m].resp = "contact_info_prompt"
          /\ (existing.present /\ ~existing.completed) =>
               /\ loc'[m].hasProgress
               /\ loc'[m].state.current_step = existing.current_step
               /\ ~IsStartFresh(loc[m].text) =>
                    /\ context' = context
                    /\ loc'[m].resp \in {"continue_prompt", "continue_or_fresh"}
    ]_vars

\* startCVGeneration found the state another message had just created and
\* reported it as progress, leaving it as it was.
C14_Witness ==
  \E m \in Msgs :
    /\ pc[m] = "addAsst"
    /\ loc[m].hasProgress
    /\ loc[m].state.present
    /\ ~loc[m].state.completed
    /\ loc[m].resp = "continue_or_fresh"
    /\ context.cv_generation = loc[m].state

\* C15: the chat handler adds an application row only in a step where the
\* message names a position N, the session's last shown job list is not
\* empty, 1 <= N <= its length and the profile completion is at least 60; the
\* row added is (the job at position N of that list, the requesting user).
\* In every other step of every handler the table is unchanged.
C15_ApplicationOnlyWhenEligible ==
  [][ applications' # applications =>
        \E m \in Msgs :
          LET n == JobNumber(loc[m].text)
              lastJobs == context.last_jobs
          IN /\ pc[m] = "app_create"
             /\ loc[m].path = "job_application"
             /\ Len(lastJobs) > 0
             /\ n >= 1
             /\ n <= Len(lastJobs)
             /\ profile >= 60
             /\ applications' = Append(applications, <<lastJobs[n], UserId>>)
    ]_vars

\* "Apply to job number 1" after a job list was shown, profile at 80: the
\* application for the first job of the list is recorded.
C15_Witness ==
  \E m \in Msgs :
    /\ pc[m] = "ret"
    /\ loc[m].text = ApplyJob1
    /\ loc[m].resp = "applied"
    /\ profile = 80
    /\ Len(context.last_jobs) >= 1
    /\ applications = << <<context.last_jobs[1], UserId>> >>

\* C16: the application table never holds two rows for the same (job, user)
\* pair, however the attempts of the chat handler and of the apply route
\* interleave.
C16_OneApplicationPerJobAndUser ==
  \A i, j \in 1..Len(applications) :
    i # j => applications[i] # applications[j]

\* Both jobs have been applied to, and a further attempt through the chat
\* for a pair already in the table was rejected.
C16_Witness ==
  /\ Len(applications) = 2
  /\ \E m \in Msgs : pc[m] = "ret" /\ loc[m].dup

\* C17: an attempt through the chat to apply to a job the user has already
\* applied to is answered with the already-applied message.
C17_DuplicateIsReported ==
  \A m \in Msgs :
    (pc[m] = "ret" /\ loc[m].dup) => loc[m].resp = "already_applied"

\* C18: a message sent to an unknown session id is answered with a message
\* that says the session does not exist.
C18_UnknownSessionIsNamed ==
  \A m \in Msgs :
    (pc[m] = "ret" /\ ~loc[m].known) =>
      /\ loc[m].outcome = "returned"
      /\ loc[m].resp = "session_not_found"

(***************************************************************************)
(* Claims about the outbound calls of the jobs client.                     *)
(***************************************************************************)
\* C19: a call of _fetchRealtimeJobs that waits for an outbound call (login,
\* jobs request, retry) eventually returns, even when the upstream never
\* answers.
C19_EveryCallReturns ==
  \A c \in JobCallers :
    (jc[c].pc \in {"login1", "fetch1", "login2", "fetch2"}) ~> (jc[c].pc = "ret")

\* C20: a call uses the cached token, without a login, only when it is made
\* more than 5 minutes before the expiry; a call made at or after that
\* boundary never sends the token that was cached: with credentials it logs in
\* and sends the token of that login, or none when the login failed; without
\* credentials it sends none.
C20_CachedTokenOnlyInsideMargin ==
  \A c \in JobCallers :
    LET j == jc[c] IN
    j.pc # "idle" =>
      /\ j.cached => (j.had # 0 /\ j.at < j.exp - 5 /\ j.token = j.had)
      /\ (j.had # 0 /\ j.at >= j.exp - 5) =>
           /\ ~j.cached
           /\ j.pc # "login1" => (j.token # j.had /\ j.fresh # j.had)
      /\ (~j.cached /\ hasCreds) => j.logins >= 1
      /\ (~j.cached /\ ~hasCreds) => (j.logins = 0 /\ j.token = 0 /\ j.fresh = 0)

\* A call made inside the margin of a cached token: its login failed, the
\* cache is cleared and the request has gone out without a token.
C20_Witness ==
  \E c \in JobCallers :
    /\ jc[c].pc = "fetch1"
    /\ jc[c].had # 0
    /\ jc[c].at >= jc[c].exp - 5
    /\ jc[c].logins = 1
    /\ jc[c].token = 0
    /\ apiToken = 0

\* C21: only a 401 answer to a request that carried a token is retried.  After
\* any other failure of the first jobs request (a 5xx, another 4xx, a network
\* error, the abort, or a 401 to a request without a token) the call has sent
\* exactly one jobs request, has performed no login beyond the one that may
\* have preceded the request, and has returned the empty list.
C21_OnlyTokenCarrying401IsRetried ==
  \A c \in JobCallers :
    LET j == jc[c] IN
    (j.first \notin {"none", "200"} /\ ~(j.first = "401" /\ j.token # 0)) =>
      /\ j.pc = "ret"
      /\ j.reqs = 1
      /\ j.retry = "none"
      /\ j.refreshes = 0
      /\ j.logins <= 1
      /\ j.outcome = "returned"
      /\ j.result = <<>>

\* A request sent without a token (the login had failed) was answered 401, and
\* the call ended after that one request with the empty list.
C21_Witness ==
  \E c \in JobCallers :
    /\ jc[c].pc = "ret"
    /\ jc[c].logins = 1
    /\ jc[c].token = 0
    /\ jc[c].first = "401"
    /\ jc[c].reqs = 1
    /\ jc[c].result = <<>>

(***************************************************************************)
(* _processJobsResponse on its own: one upstream body, normalized and      *)
(* filtered.                                                               *)
(***************************************************************************)
EarlyDate == "2024-01-05"
LateDate == "2024-03-01"

\* Upstream records that differ in every field the normalization reads.
FeedRecords ==
  { [NoFields EXCEPT !.id = id, !.job_id = job_id, !.status = status,
                     !.positions_available = available, !.slots = slots,
                     !.positions_filled = filled, !.min_salary = salary,
                     !.posted_date = posted] :
      id \in {Undef, Null, Num(0), Num(9)},
      job_id \in {Undef, Num(7)},
      status \in {Undef, Str("Active"), Str("Closed"), Str("draft")},
      available \in {Undef, Num(0), Num(2), Num(0 - 3), Str("abc")},
      slots \in {Undef, Str("2")},
      filled \in {Undef, Num(0), Num(2), Num(0 - 1)},
      salary \in {Undef, Str("1000"), Num(0 - 5), Str("abc")},
      posted \in {Undef, Str(EarlyDate)} }

\* Upstream records that differ in id and date only.
DatedRecords ==
  { [NoFields EXCEPT !.id = Num(id), !.posted_date = posted] :
      id \in {7, 8}, posted \in {Undef, Str(EarlyDate), Str(LateDate)} }

\* The bodies checked: every record alone, and the dated ones in twos.
FeedBodies ==
  { [kind |-> kind, items |-> << r >>] : kind \in {"array", "wrapped"}, r \in FeedRecords }
    \cup { [kind |-> "array", items |-> << r1, r2 >>] : r1 \in DatedRecords, r2 \in DatedRecords }
    \cup { [kind |-> "object", items |-> <<>>] }

FeedInit ==
  /\ ChatIdle
  /\ JobsIdle
  /\ classified = NoFn
  /\ retrieval = NoFn
  /\ PartsIdle
  /\ feed \in { [pc |-> "raw", rawData |-> body, jobs |-> <<>>] : body \in FeedBodies }

\* return this._processJobsResponse(raw, filters, startTime)
ProcessJobsResponse ==
  /\ feed.pc = "raw"
  /\ feed' = [feed EXCEPT !.pc = "done", !.jobs = _processJobsResponse(feed.rawData)]
  /\ UNCHANGED << chatVars, jobsVars, classified, retrieval, partVars >>

FeedNext == ProcessJobsResponse

FeedSpec == FeedInit /\ [][FeedNext]_vars

(***************************************************************************)
(* Claims about the normalization and filtering of the jobs (FeedSpec).    *)
(***************************************************************************)
\* The statuses of a posting that is open; the default filter of GET /api/jobs
\* keeps "active" only.
ActiveLike == {"active"}

\* C22: every job in the list returned by the jobs client has a status inside
\* the active-like allow-list; a record with any other status is excluded.
C22_StatusInsideAllowList ==
  feed.pc = "done" =>
    \A i \in 1..Len(feed.jobs) : feed.jobs[i].status \in ActiveLike

\* The position counts of an upstream record, as the aliases resolve them.
UpstreamAvailable(raw) ==
  Coalesce(raw.positions_available, Coalesce(raw.openings, raw.slots))

UpstreamFilled(raw) == Coalesce(raw.positions_filled, Coalesce(raw.filled, Num(0)))

\* C23: a posting whose upstream positions_available is set and is less than
\* or equal to its positions_filled (0 included) never appears in the result,
\* while a posting whose positions_available is unset is retained.
C23_NoOpenPositionsExcluded ==
  (feed.pc = "done" /\ Len(feed.rawData.items) = 1) =>
    LET raw == feed.rawData.items[1]
        available == UpstreamAvailable(raw)
        filled == UpstreamFilled(raw)
    IN /\ ( /\ available.t = "num"
            /\ filled.t = "num"
            /\ available.n >= 0
            /\ available.n <= filled.n )
          => feed.jobs = <<>>
       /\ ( /\ available.t \in {"undefined", "null"}
            /\ IsJob(_normalizeJob(raw))
            /\ _normalizeJob(raw).status \notin ClosedStatuses )
          => feed.jobs # <<>>

\* A number that is not negative, or null.
NonNegativeOrNull(v) == v = Null \/ (v.t = "num" /\ v.n >= 0)

\* C24: in every normalized job each numeric field (salary_min, salary_max,
\* positions_available, positions_filled, views, applications_count) is a
\* non-negative number or the field's null/default fallback, whatever the
\* upstream value was.
C24_NumericFieldsNonNegative ==
  feed.pc = "done" =>
    \A i \in 1..Len(feed.jobs) :
      LET j == feed.jobs[i] IN
      /\ NonNegativeOrNull(j.salary_min)
      /\ NonNegativeOrNull(j.salary_max)
      /\ NonNegativeOrNull(j.positions_available)
      /\ NonNegativeOrNull(j.positions_filled)
      /\ NonNegativeOrNull(j.views)
      /\ NonNegativeOrNull(j.applications_count)

\* The id of a record: the first of id, job_id, ID that is present and not null.
ResolvedId(raw) == Coalesce(raw.id, Coalesce(raw.job_id, Coalesce(raw.ID, Null)))

\* The record {job_id: 7, min_salary: "1000", slots: "2"}.
ExampleRecord ==
  [NoFields EXCEPT !.job_id = Num(7), !.min_salary = Str("1000"), !.slots = Str("2")]

\* C25: normalizeJob returns null exactly when the record has no resolvable
\* id, and such records are left out of the list; every record with a
\* resolvable id is normalized with that id; {job_id: 7, min_salary: "1000",
\* slots: "2"} yields id 7, salary_min 1000, positions_available 2, status
\* "active".
C25_NullExactlyWithoutId ==
  (feed.pc = "done" /\ Len(feed.rawData.items) = 1) =>
    LET raw == feed.rawData.items[1]
        job == _normalizeJob(raw)
    IN /\ (job = NullJob) <=> (ResolvedId(raw) = Null)
       /\ job = NullJob => feed.jobs = <<>>
       /\ job # NullJob => job.id = ResolvedId(raw)
       /\ raw = ExampleRecord =>
            /\ job.id = Num(7)
            /\ job.salary_min = Num(1000)
            /\ job.positions_available = Num(2)
            /\ job.status = "active"

\* The place of a posted_date in the order of the dates; a record the
\* upstream gave no date comes last.
DateRank(d) ==
  CASE d = Str(LateDate) -> 2
    [] d = Str(EarlyDate) -> 1
    [] OTHER -> 0

\* C26: the list returned by the jobs client is ordered by posted_date
\* descending, records without a posted_date after all dated records.
C26_OrderedByPostedDateDesc ==
  feed.pc = "done" =>
    \A i \in 1..Len(feed.jobs) : \A k \in 1..Len(feed.jobs) :
      i < k => DateRank(feed.jobs[i].posted_date) >= DateRank(feed.jobs[k].posted_date)

(***************************************************************************)
(* _detectIntent and _extractJobPreferences on their own.                  *)
(***************************************************************************)
MaxWords == 4

\* Words that take part in the patterns of the three intents, one of them in
\* capitals.
ClassifyWords == {"create", "CV", "help", "show", "jobs", "job", "apply", "how"}

\* Every text of at most MaxWords of these words, and the texts of the chat.
ClassifyTexts ==
  Texts \cup UNION { [1..n -> ClassifyWords] : n \in 0..MaxWords }

categories ==
  << "cleaning", "security", "childcare", "cooking", "gardening", "driver",
     "housekeeping" >>

locations ==
  << "kigali", "nyarugenge", "gasabo", "kicukiro", "musanze", "huye", "rubavu" >>

\* text.includes(s) for one word s: no word of the vocabulary contains a
\* category or a location without being it.
Includes(text, s) == \E i \in 1..Len(text) : text[i] = s

\* text.includes('full time'): the two words, one after the other.
IncludesPair(text, a, b) == \E i \in 1..Len(text) : text[i] = a /\ WordAt(text, i + 1) = b

\* for (const x of list) if (text.includes(x)) { preferences.k = x; break; }
\* "" stands for a key the object does not have.
FirstIncluded(text, list) ==
  LET hits == {i \in 1..Len(list) : Includes(text, list[i])}
  IN IF hits = {} THEN ""
     ELSE list[CHOOSE i \in hits : \A k \in hits : i <= k]

_extractJobPreferences(message) ==
  LET text == toLowerCase(message) IN
  [ category |-> FirstIncluded(text, categories),
    location |-> FirstIncluded(text, locations),
    work_type |->
      IF Includes(text, "full-time") \/ IncludesPair(text, "full", "time")
        THEN "full-time"
      ELSE IF Includes(text, "part-time") \/ IncludesPair(text, "part", "time")
        THEN "part-time"
      ELSE "" ]

NoPreferences == [category |-> "", location |-> "", work_type |-> ""]

ClassifyInit ==
  /\ ChatIdle
  /\ JobsIdle
  /\ feed = NoFn
  /\ retrieval = NoFn
  /\ PartsIdle
  /\ classified \in
       { [pc |-> "message", message |-> t, intent |-> "none", preferences |-> NoPreferences] :
           t \in ClassifyTexts }

\* const intent = this._detectIntent(message); the jobs handler then reads the
\* preferences out of the same message.
DetectIntent ==
  /\ classified.pc = "message"
  /\ LET intent == _detectIntent(classified.message) IN
     classified' =
       [classified EXCEPT
          !.pc = "done",
          !.intent = intent,
          !.preferences = IF intent = "jobs"
                          THEN _extractJobPreferences(classified.message)
                          ELSE NoPreferences]
  /\ UNCHANGED << chatVars, jobsVars, feed, retrieval, partVars >>

ClassifyNext == DetectIntent

ClassifySpec == ClassifyInit /\ [][ClassifyNext]_vars

\* The pattern groups of the three intents, on the lower-cased text.
MatchesCv(message) ==
  LET text == toLowerCase(message) IN
  MatchesCvVerbNoun(text) \/ MatchesCvHelpNoun(text) \/ MatchesHelpCv(text)

MatchesJobSearch(message) ==
  LET text == toLowerCase(message) IN
  \/ MatchesJobVerbNoun(text) \/ MatchesJobAfter(text)
  \/ MatchesWhatJobs(text) \/ HasWord(text, {"hiring"})

MatchesApplication(message) ==
  LET text == toLowerCase(message) IN MatchesApplyJob(text) \/ MatchesHowApply(text)

\* C27: _detectIntent returns exactly one of cv_generation, jobs,
\* job_application, general, in fixed priority: a message matching a CV
\* pattern is cv_generation whatever else it matches; otherwise one matching a
\* job-search pattern is jobs even if it matches a job-application pattern;
\* otherwise job_application if it matches one; otherwise general.  "Help me
\* write a CV" is cv_generation, "Show me available cleaning jobs in Kigali" is
\* jobs with preferences {category: cleaning, location: kigali}, "How do I
\* apply for a job" is job_application and "What is Kozi?" is general.
C27_IntentByFixedPriority ==
  classified.pc = "done" =>
    LET m == classified.message
        intent == classified.intent
    IN /\ intent \in {"cv_generation", "jobs", "job_application", "general"}
       /\ MatchesCv(m) => intent = "cv_generation"
       /\ (~MatchesCv(m) /\ MatchesJobSearch(m)) => intent = "jobs"
       /\ (~MatchesCv(m) /\ ~MatchesJobSearch(m) /\ MatchesApplication(m))
            => intent = "job_application"
       /\ (~MatchesCv(m) /\ ~MatchesJobSearch(m) /\ ~MatchesApplication(m))
            => intent = "general"
       /\ m = HelpWriteCv => intent = "cv_generation"
       /\ m = ShowJobs =>
            /\ intent = "jobs"
            /\ classified.preferences =
                 [category |-> "cleaning", location |-> "kigali", work_type |-> ""]
       /\ m = HowApply => intent = "job_application"
       /\ m = WhatIsKozi => intent = "general"

\* A message that matches a job-search and a job-application pattern and no CV
\* pattern has been classified as jobs.
C27_Witness ==
  /\ classified.pc = "done"
  /\ ~MatchesCv(classified.message)
  /\ MatchesJobSearch(classified.message)
  /\ MatchesApplication(classified.message)
  /\ classified.intent = "jobs"

(***************************************************************************)
(* Claims about the order of sendMessage's steps (SeqSpec).                *)
(***************************************************************************)
\* The user turn of message m is in the transcript.
UserTurnKept(m) == \E i \in 1..Len(transcript) : transcript[i] = <<"user", m>>

\* C28: sendMessage appends the inbound user message before any other step
\* (session read, classification, handler): while the append is pending the
\* call has read and decided nothing, and once the append has succeeded the
\* user's turn is in the transcript, whatever fails afterwards.
C28_UserTurnAppendedFirst ==
  \A m \in Msgs :
    /\ (pc[m] \notin {"idle", "addUser", "catch", "ret", "done"}) =>
         (loc[m].known => UserTurnKept(m))
    /\ (loc[m].known /\ loc[m].path # "none") => UserTurnKept(m)
    /\ (~UserTurnKept(m) /\ pc[m] \in {"addUser", "catch"}) =>
         /\ loc[m].path = "none"
         /\ loc[m].intent = "none"
         /\ loc[m].cvState = NoCV

\* The handler of a message failed and the apology could not be stored either;
\* the user's turn is in the transcript.
C28_Witness ==
  \E m \in Msgs :
    /\ pc[m] = "ret"
    /\ loc[m].known
    /\ loc[m].path # "none"
    /\ loc[m].outcome = "threw"
    /\ UserTurnKept(m)
    /\ \A i \in 1..Len(transcript) : transcript[i] # <<"assistant", m>>

(***************************************************************************)
(* VectorService.search and RAGService.getRelevantContext.                 *)
(***************************************************************************)
MaxDocs == 3
MaxLimit == 3

\* result.similarity > 0.7, the threshold as the fraction 7/10
ThresholdNum == 7
ThresholdDen == 10

DotUpTo(vecA, vecB, n) ==
  LET RECURSIVE sum(_)
      sum(i) == IF i = 0 THEN 0 ELSE sum(i - 1) + vecA[i] * vecB[i]
  IN sum(n)

\* vecA.reduce((sum, a, i) => sum + a * vecB[i], 0)
dotProduct(vecA, vecB) == DotUpTo(vecA, vecB, Len(vecA))

\* _cosineSimilarity: dotProduct / (magnitudeA * magnitudeB), kept as the exact
\* terms of the quotient: the dot product and the two squared magnitudes.
_cosineSimilarity(vecA, vecB) ==
  [ dot |-> dotProduct(vecA, vecB),
    magA2 |-> dotProduct(vecA, vecA),
    magB2 |-> dotProduct(vecB, vecB) ]

\* The square of a similarity with the sign of the similarity, as numerator
\* and denominator.
SignedSquare(s) == s.dot * (IF s.dot < 0 THEN 0 - s.dot ELSE s.dot)

SquareDenominator(s) == s.magA2 * s.magB2

\* s1 > s2 for two similarities of non-zero vectors.
SimGreater(s1, s2) ==
  SignedSquare(s1) * SquareDenominator(s2) > SignedSquare(s2) * SquareDenominator(s1)

\* Mutant of AboveThreshold: a similarity of exactly 0.7 passes.
AboveThresholdInclusive(s) ==
  /\ s.dot > 0
  /\ ThresholdDen * ThresholdDen * s.dot * s.dot
       >= ThresholdNum * ThresholdNum * SquareDenominator(s)

\* result.similarity > 0.7
AboveThreshold(s) ==
  /\ s.dot > 0
  /\ ThresholdDen * ThresholdDen * s.dot * s.dot
       > ThresholdNum * ThresholdNum * SquareDenominator(s)

\* The documents of the knowledge base; with the query <<1, 0, 0, 0>> their
\* similarities are 1, 0.95, 0.71, 0.7, 0.58, 0 and -1.
Document(id, embedding) == [id |-> id, text |-> id, embedding |-> embedding]

KnowledgeDocuments ==
  { Document("faq", <<1, 0, 0, 0>>),
    Document("profile", <<3, 1, 0, 0>>),
    Document("cv-tips", <<5, 5, 0, 0>>),
    Document("fees", <<7, 7, 1, 1>>),
    Document("jobs", <<1, 1, 1, 0>>),
    Document("contact", <<0, 0, 1, 0>>),
    Document("legal", <<0 - 1, 0, 0, 0>>) }

\* The embeddings the queries get.
QueryEmbeddings == { <<1, 0, 0, 0>>, <<0, 1, 0, 0>> }

\* The stores: up to MaxDocs different documents, in the order readdir lists
\* their files.
Stores ==
  UNION { { s \in [1..n -> KnowledgeDocuments] :
              \A i \in 1..n : \A k \in 1..n : i # k => s[i] # s[k] } :
          n \in 0..MaxDocs }

\* Mutant of SortBySimilarity: the documents stay in the order they were read.
SortKeepsOrder(list) == list

\* similarities.sort((a, b) => b.similarity - a.similarity): a stable sort,
\* greatest similarity first.
SortBySimilarity(list) ==
  LET insert(sorted, x) ==
        LET after == {i \in 1..Len(sorted) :
                        SimGreater(x.similarity, sorted[i].similarity)}
        IN IF after = {} THEN Append(sorted, x)
           ELSE LET p == CHOOSE i \in after : \A k \in after : i <= k
                IN SubSeq(sorted, 1, p - 1) \o << x >> \o SubSeq(sorted, p, Len(sorted))
      RECURSIVE sort(_)
      sort(n) == IF n = 0 THEN <<>> ELSE insert(sort(n - 1), list[n])
  IN sort(Len(list))

\* .slice(0, limit)
slice(list, limit) == SubSeq(list, 1, IF limit < Len(list) THEN limit ELSE Len(list))

\* documents.map(doc => ({...doc, similarity: ...})), sorted and cut.
Ranked(queryEmbedding, documents, limit) ==
  LET similarities ==
        [i \in 1..Len(documents) |->
           [ id |-> documents[i].id, text |-> documents[i].text,
             embedding |-> documents[i].embedding,
             similarity |-> _cosineSimilarity(queryEmbedding, documents[i].embedding) ]]
  IN slice(SortBySimilarity(similarities), limit)

\* .join('\n\n'): the texts with the separator between them; <<>> is ''.
join(texts) ==
  LET RECURSIVE joined(_)
      joined(n) == IF n = 0 THEN <<>>
                   ELSE IF n = 1 THEN << texts[1] >>
                   ELSE joined(n - 1) \o << "\n\n", texts[n] >>
  IN joined(Len(texts))

RelevantResult(result) == AboveThreshold(result.similarity)

\* results.filter(result => result.similarity > 0.7).map(result => result.text)
RelevantTexts(results) ==
  LET kept == SelectSeq(results, RelevantResult)
  IN [i \in 1..Len(kept) |-> kept[i].text]

RetrievalInit ==
  /\ ChatIdle
  /\ JobsIdle
  /\ classified = NoFn
  /\ feed = NoFn
  /\ PartsIdle
  /\ retrieval \in
       { [ pc |-> "embed", queryEmbedding |-> q, documents |-> s, limit |-> l,
           embedded |-> FALSE, loaded |-> FALSE, results |-> <<>>,
           context |-> <<>>, outcome |-> "none" ] :
           q \in QueryEmbeddings, s \in Stores, l \in 0..MaxLimit }

\* getRelevantContext calls search, which awaits embedQuery(query): the
\* embedding arrives, or the call fails, search rethrows and the catch of
\* getRelevantContext returns ''.
EmbedQuery ==
  /\ retrieval.pc = "embed"
  /\ \/ retrieval' = [retrieval EXCEPT !.pc = "load", !.embedded = TRUE]
     \/ retrieval' = [retrieval EXCEPT !.pc = "done", !.context = <<>>,
                                       !.outcome = "returned"]
  /\ UNCHANGED << chatVars, jobsVars, classified, feed, partVars >>

\* search awaits _loadAllDocuments, which returns [] when reading fails, and
\* returns the documents ranked and cut to the limit.
LoadAllDocuments ==
  /\ retrieval.pc = "load"
  /\ \/ retrieval' =
          [retrieval EXCEPT
             !.pc = "searched", !.loaded = TRUE,
             !.results = Ranked(retrieval.queryEmbedding, retrieval.documents,
                                retrieval.limit)]
     \/ retrieval' =
          [retrieval EXCEPT
             !.pc = "searched",
             !.results = Ranked(retrieval.queryEmbedding, <<>>, retrieval.limit)]
  /\ UNCHANGED << chatVars, jobsVars, classified, feed, partVars >>

\* getRelevantContext after search: filter, map, join, return.
GetRelevantContext ==
  /\ retrieval.pc = "searched"
  /\ retrieval' = [retrieval EXCEPT !.pc = "done",
                                    !.context = join(RelevantTexts(retrieval.results)),
                                    !.outcome = "returned"]
  /\ UNCHANGED << chatVars, jobsVars, classified, feed, partVars >>

RetrievalNext == EmbedQuery \/ LoadAllDocuments \/ GetRelevantContext

RetrievalSpec == RetrievalInit /\ [][RetrievalNext]_vars

(***************************************************************************)
(* Claims about retrieval (RetrievalSpec).                                 *)
(***************************************************************************)
\* The similarity of a stored document to the query.
SimilarityOf(doc) == _cosineSimilarity(retrieval.queryEmbedding, doc.embedding)

\* C29: search returns the stored documents ordered by non-increasing
\* similarity to the query and cut to limit: the result has min(limit, number
\* of stored documents) entries, each a different stored document, no document
\* outside the result is more similar than one inside it, and a search over an
\* empty store returns the empty list rather than an error.  Stated for
\* searches whose query was embedded and whose documents could be read.
C29_SearchRankedAndTruncated ==
  (retrieval.pc \in {"searched", "done"} /\ retrieval.embedded /\ retrieval.loaded) =>
    LET docs == retrieval.documents
        res == retrieval.results
        n == Len(docs)
        inside == {res[i].id : i \in 1..Len(res)}
    IN /\ Len(res) = (IF retrieval.limit < n THEN retrieval.limit ELSE n)
       /\ Cardinality(inside) = Len(res)
       /\ \A i \in 1..Len(res) :
            \E k \in 1..n : /\ docs[k].id = res[i].id
                            /\ docs[k].text = res[i].text
                            /\ res[i].similarity = SimilarityOf(docs[k])
       /\ \A i \in 1..Len(res) : \A k \in 1..Len(res) :
            i < k => ~SimGreater(res[k].similarity, res[i].similarity)
       /\ \A k \in 1..n :
            docs[k].id \notin inside =>
              \A i \in 1..Len(res) : ~SimGreater(SimilarityOf(docs[k]), res[i].similarity)
       /\ n = 0 => res = <<>>

\* A store of three documents read in ascending similarity was searched with
\* limit 2: the two most similar came back, the most similar first.
C29_Witness ==
  /\ retrieval.pc = "searched"
  /\ retrieval.loaded
  /\ retrieval.limit = 2
  /\ Len(retrieval.documents) = 3
  /\ SimGreater(SimilarityOf(retrieval.documents[2]), SimilarityOf(retrieval.documents[1]))
  /\ SimGreater(SimilarityOf(retrieval.documents[3]), SimilarityOf(retrieval.documents[2]))
  /\ Len(retrieval.results) = 2
  /\ retrieval.results[1].id = retrieval.documents[3].id
  /\ retrieval.results[2].id = retrieval.documents[2].id

\* similarity > 7/10 and similarity <= 7/10, in whole numbers.
ClearsThreshold(s) == s.dot > 0 /\ 100 * s.dot * s.dot > 49 * s.magA2 * s.magB2

\* The positions of the search results that clear the threshold.
Qualifying == {i \in 1..Len(retrieval.results) : ClearsThreshold(retrieval.results[i].similarity)}

\* C30: getRelevantContext returns the texts of exactly those of the top-limit
\* search results whose similarity is strictly greater than 0.7, in descending
\* similarity order, joined by a blank line; a document with similarity equal
\* to or below 0.7 is never included; it returns the empty string when none
\* qualify and when the embedding or the search fails; it never throws.
C30_ContextIsResultsAboveThreshold ==
  retrieval.pc = "done" =>
    LET res == retrieval.results
        ctx == retrieval.context
        count == Cardinality(Qualifying)
    IN /\ retrieval.outcome = "returned"
       /\ ~retrieval.embedded => ctx = <<>>
       /\ ~retrieval.loaded => ctx = <<>>
       /\ count = 0 => ctx = <<>>
       /\ count > 0 => Len(ctx) = 2 * count - 1
       /\ \A p \in 1..Len(ctx) : p % 2 = 0 => ctx[p] = "\n\n"
       /\ \A i \in Qualifying :
            ctx[2 * Cardinality({k \in Qualifying : k <= i}) - 1] = res[i].text
       /\ \A i \in 1..Len(res) :
            ~ClearsThreshold(res[i].similarity) =>
              \A p \in 1..Len(ctx) : ctx[p] # res[i].text

\* Among the results were a document of similarity exactly 0.7 and two above
\* it; the context is the two texts, the more similar first.
C30_Witness ==
  /\ retrieval.pc = "done"
  /\ retrieval.loaded
  /\ Len(retrieval.results) = 3
  /\ \E i \in 1..3 :
       LET s == retrieval.results[i].similarity
       IN s.dot > 0 /\ 100 * s.dot * s.dot = 49 * s.magA2 * s.magB2
  /\ Len(retrieval.context) = 3
  /\ retrieval.context[1] = retrieval.results[1].text
  /\ retrieval.context[3] = retrieval.results[2].text
  /\ SimGreater(retrieval.results[1].similarity, retrieval.results[2].similarity)

(***************************************************************************)
(* Claims about the CV flow under concurrent and repeated messages.        *)
(***************************************************************************)
\* C31: under any interleaving of messages handled concurrently in one session
\* during the CV flow, the persisted completed_steps holds no step name twice
\* and is a prefix of the canonical order.
C31_ConcurrentStepsStayAPrefix ==
  LET done == context.cv_generation.completed_steps IN
  context.cv_generation.present =>
    /\ \A i \in 1..Len(done) : \A k \in 1..Len(done) : i # k => done[i] # done[k]
    /\ Len(done) <= Len(steps)
    /\ \A i \in 1..Len(done) : done[i] = steps[i]

\* C32: after a CV flow has been cancelled or completed (completed = true), a
\* later cv_generation-intent message in the session restarts the flow: once
\* the message is answered the CV state is active again at contact_info with
\* no completed step.  Stated for messages whose handler met no failure.
C32_CompletedFlowRestarts ==
  \A m \in Msgs :
    ( /\ pc[m] = "ret"
      /\ loc[m].path = "cv_generation"
      /\ loc[m].state.present
      /\ loc[m].state.completed
      /\ loc[m].resp \notin {"trouble_cv", "error_generic"} )
    => /\ CvActive(context.cv_generation)
       /\ context.cv_generation.current_step = "contact_info"
       /\ context.cv_generation.completed_steps = <<>>

\* The step whose prompt the reply of message m carries.
PromptedStep(m) ==
  IF loc[m].resp = "contact_info_prompt" THEN "contact_info"
  ELSE loc[m].state.current_step

\* C33: whenever the reply is a CV step prompt (the first contact_info prompt,
\* a next-step prompt, or the "Great! Let's continue" reply), the persisted CV
\* state is active at the prompted step, so the next message goes to
\* processStep for that step.
C33_StepPromptMeansActiveState ==
  \A m \in Msgs :
    ( /\ pc[m] = "ret"
      /\ loc[m].resp \in {"contact_info_prompt", "next_prompt", "continue_prompt"} )
    => /\ CvActive(context.cv_generation)
       /\ context.cv_generation.current_step = PromptedStep(m)

\* A flow takes its start message and one message per step before it is
\* finalized, so a run of MaxMsgs messages handled one after another holds at
\* most this many flows that reach finalization.
FlowsThatCanFinalize == MaxMsgs \div (Len(steps) + 1)

\* C34: each CV flow that reaches finalization persists exactly one generated
\* artifact: the generated_cvs rows never outnumber the flows that can have
\* reached finalization, whatever fails after the insert.
C34_OneArtifactPerFlow == Len(generated_cvs) <= FlowsThatCanFinalize

(***************************************************************************)
(* The session store with two sessions: the context writes of the          *)
(* handlers and the transcript appends, each keyed by the session id the   *)
(* handler was called with.  A context is a map from the keys it holds.    *)
(***************************************************************************)
MaxTurns == 2

SessionIds == {"s1", "s2"}

ContextKeys ==
  { "cv_generation", "last_jobs", "last_jobs_timestamp", "intent",
    "last_profile_completion", "topics_discussed" }

\* context of a new session: '{}'
EmptyContext == [k \in {} |-> "none"]

\* ChatSession.updateContext(sessionId, partial): the keys of partial replace
\* or extend the stored context, the other keys stay.
MergeShallow(ctx, partial) ==
  [k \in (DOMAIN ctx) \cup (DOMAIN partial) |->
     IF k \in DOMAIN partial THEN partial[k] ELSE ctx[k]]

\* Mutant of JSON_SET: the document is replaced by one holding the key only.
JSON_SETWhole(doc, key, value) == [k \in {key} |-> value]

\* JSON_SET(COALESCE(context, '{}'), '$.cv_generation', ?)
JSON_SET(doc, key, value) ==
  [k \in (DOMAIN doc) \cup {key} |-> IF k = key THEN value ELSE doc[k]]

\* What a context holds under a key ("undefined" when it lacks the key).
Lookup(ctx, k) == IF k \in DOMAIN ctx THEN ctx[k] ELSE "undefined"

\* The store call of message handling that has just run, and its session.
StoreCall(op, sid) == [op |-> op, sid |-> sid]

StoreInit ==
  /\ ChatIdle
  /\ JobsIdle
  /\ classified = NoFn
  /\ feed = NoFn
  /\ retrieval = NoFn
  /\ store = [ pc |-> "run",
               rows |-> [s \in SessionIds |->
                           [context |-> EmptyContext, messages |-> <<>>]],
               last |-> StoreCall("none", "s1") ]
  /\ listing = NoFn
  /\ conversation = NoFn
  /\ migrations = NoFn
  /\ composable = NoFn

\* The row of session sid gets the context ctx; the call is noted.
WriteContext(op, sid, ctx) ==
  /\ store' = [store EXCEPT !.rows[sid].context = ctx, !.last = StoreCall(op, sid)]
  /\ UNCHANGED << chatVars, jobsVars, fnVars, listing, conversation, migrations,
                  composable >>

\* sendMessage: ChatSession.addMessage(sessionId, text, sender)
AppendTurn(sid) ==
  /\ Len(store.rows[sid].messages) < MaxTurns
  /\ \E sender \in {"user", "assistant"} :
       store' = [store EXCEPT
                   !.rows[sid].messages = Append(store.rows[sid].messages, sender),
                   !.last = StoreCall("addMessage", sid)]
  /\ UNCHANGED << chatVars, jobsVars, fnVars, listing, conversation, migrations,
                  composable >>

\* _handleJobsIntent: updateContext(sessionId, { last_jobs, last_jobs_timestamp,
\* intent: 'jobs' })
JobsUpdateContext(sid) ==
  \E jobs \in {"jobsA", "jobsB"} :
    WriteContext("jobs", sid,
      MergeShallow(store.rows[sid].context,
        [k \in {"last_jobs", "last_jobs_timestamp", "intent"} |->
           CASE k = "last_jobs" -> jobs
             [] k = "last_jobs_timestamp" -> "now"
             [] OTHER -> "jobs"]))

\* _handleGeneralIntent: updateContext(sessionId, { last_profile_completion,
\* topics_discussed })
GeneralUpdateContext(sid) ==
  WriteContext("general", sid,
    MergeShallow(store.rows[sid].context,
      [k \in {"last_profile_completion", "topics_discussed"} |->
         IF k = "topics_discussed" THEN "topics" ELSE "percentage"]))

\* saveCVGenerationState(sessionId, userId, state)
SaveCVGenerationState(sid) ==
  \E state \in {"contact_info", "professional_summary"} :
    WriteContext("saveCV", sid, JSON_SET(store.rows[sid].context, "cv_generation", state))

\* _handleCVGenerationFlow: updateContext(sessionId, { cv_generation:
\* { ...cvState, completed: true } })
CompleteUpdateContext(sid) ==
  /\ "cv_generation" \in DOMAIN store.rows[sid].context
  /\ WriteContext("complete", sid,
       MergeShallow(store.rows[sid].context,
         [k \in {"cv_generation"} |-> "completed"]))

StoreNext ==
  \E sid \in SessionIds :
    \/ AppendTurn(sid)
    \/ JobsUpdateContext(sid)
    \/ GeneralUpdateContext(sid)
    \/ SaveCVGenerationState(sid)
    \/ CompleteUpdateContext(sid)

StoreSpec == StoreInit /\ [][StoreNext]_vars

\* The context keys a store call may change.
Written(op) ==
  CASE op = "jobs" -> {"last_jobs", "last_jobs_timestamp", "intent"}
    [] op = "general" -> {"last_profile_completion", "topics_discussed"}
    [] op \in {"saveCV", "complete"} -> {"cv_generation"}
    [] OTHER -> {}

\* C35: context updates are key-local: the jobs handler changes only last_jobs,
\* last_jobs_timestamp and intent, the general handler only
\* last_profile_completion and topics_discussed, saving CV state only
\* cv_generation; every other key of the session keeps its value, and no call
\* changes the transcript or the context of another session.
C35_ContextUpdatesAreKeyLocal ==
  [][ LET call == store'.last IN
      /\ \A s \in SessionIds \ {call.sid} : store'.rows[s] = store.rows[s]
      /\ \A k \in ContextKeys \ Written(call.op) :
           Lookup(store'.rows[call.sid].context, k)
             = Lookup(store.rows[call.sid].context, k)
      /\ call.op # "addMessage" =>
           store'.rows[call.sid].messages = store.rows[call.sid].messages
    ]_vars

\* CV state has just been saved in a session that holds a jobs list and
\* topics, while the other session holds a context and a transcript of its own.
C35_Witness ==
  /\ store.pc = "run"
  /\ store.last.op = "saveCV"
  /\ \E other \in SessionIds \ {store.last.sid} :
       /\ store.rows[other].messages # <<>>
       /\ Lookup(store.rows[other].context, "cv_generation") = "completed"
       /\ Lookup(store.rows[store.last.sid].context, "last_jobs") = "jobsB"
       /\ Lookup(store.rows[store.last.sid].context, "topics_discussed") = "topics"
       /\ Lookup(store.rows[store.last.sid].context, "cv_generation")
            = "professional_summary"

(***************************************************************************)
(* The jobs listing of one session and an application by number: what      *)
(* _handleJobsIntent shows and stores, what _handleJobApplicationIntent    *)
(* selects.                                                                *)
(***************************************************************************)
MaxFetched == 6
MaxJobNumber == 7

\* jobs.slice(0, 5).forEach((job, index) => ... `${index + 1}. ${job.title}`
DisplayLimit == 5

UpstreamIds == <<101, 102, 103, 104, 105, 106, 107>>

\* The lists a fetch can return: the upstream's first jobs, in either order.
FetchedJobs ==
  { [i \in 1..len |-> UpstreamIds[i]] : len \in 0..MaxFetched }
    \cup { [i \in 1..len |-> UpstreamIds[len + 1 - i]] : len \in 2..MaxFetched }

\* The numbered jobs of a jobs response: index + 1 is the number shown.
DisplayedJobs(jobs) == slice(jobs, DisplayLimit)

\* const jobIndex = parseInt(jobIdMatch[1], 10) - 1;
\* const selectedJob = lastJobs[jobIndex]      (0: undefined)
SelectedJob(lastJobs, number) ==
  LET jobIndex == number - 1
  IN IF jobIndex \in 0..(Len(lastJobs) - 1) THEN lastJobs[jobIndex + 1] ELSE 0

ListingInit ==
  /\ ChatIdle
  /\ JobsIdle
  /\ classified = NoFn
  /\ feed = NoFn
  /\ retrieval = NoFn
  /\ store = NoFn
  /\ listing = [ pc |-> "run", last_jobs |-> <<>>, displayed |-> <<>>,
                 number |-> 0, selected |-> 0, resp |-> "none" ]
  /\ conversation = NoFn
  /\ migrations = NoFn
  /\ composable = NoFn

\* _handleJobsIntent: an empty result or a failure shows no list and stores
\* nothing; else the first jobs are shown numbered and the whole list is
\* stored as last_jobs.
ListJobs ==
  /\ \E jobs \in FetchedJobs, ok \in BOOLEAN :
       IF jobs = <<>> \/ ~ok
       THEN listing' = [listing EXCEPT
                          !.resp = IF jobs = <<>> THEN "no_jobs" ELSE "trouble_jobs",
                          !.number = 0, !.selected = 0]
       ELSE listing' = [listing EXCEPT
                          !.last_jobs = jobs, !.displayed = DisplayedJobs(jobs),
                          !.resp = "jobs_list", !.number = 0, !.selected = 0]
  /\ UNCHANGED << chatVars, jobsVars, fnVars, store, conversation, migrations,
                  composable >>

\* _handleJobApplicationIntent for "apply to job <number>".
ApplyByNumber ==
  /\ \E number \in 0..MaxJobNumber, sufficient \in BOOLEAN :
       LET lastJobs == listing.last_jobs
           selectedJob == SelectedJob(lastJobs, number)
       IN listing' = [listing EXCEPT
            !.number = number,
            !.selected = IF Len(lastJobs) = 0 THEN 0 ELSE selectedJob,
            !.resp = IF Len(lastJobs) = 0 THEN "no_recent_jobs"
                     ELSE IF selectedJob = 0 THEN "job_not_found"
                     ELSE IF ~sufficient THEN "profile_incomplete"
                     ELSE "applied"]
  /\ UNCHANGED << chatVars, jobsVars, fnVars, store, conversation, migrations,
                  composable >>

ListingNext == ListJobs \/ ApplyByNumber

ListingSpec == ListingInit /\ [][ListingNext]_vars

\* C36: the job that "apply to job N" resolves to was displayed with the
\* number N in the session's most recent jobs list, and a number that was not
\* displayed there is rejected.
C36_AppliedJobWasDisplayedWithThatNumber ==
  listing.resp \in {"applied", "profile_incomplete", "job_not_found", "no_recent_jobs"}
    => IF listing.number \in 1..Len(listing.displayed)
       THEN listing.selected = listing.displayed[listing.number]
       ELSE listing.resp \in {"job_not_found", "no_recent_jobs"}

(***************************************************************************)
(* The general handler's conversational input: the transcript after the    *)
(* user turn was appended, its last ten turns, and the array handed to     *)
(* openaiService.generateResponse.                                         *)
(***************************************************************************)
MaxTranscript == 12

\* session.messages.slice(-10)
RecentTurns == 10

Turn(sender, message) == [sender |-> sender, message |-> message]

\* list.slice(-n)
sliceLast(list, n) ==
  SubSeq(list, IF Len(list) > n THEN Len(list) - n + 1 ELSE 1, Len(list))

\* [{ sender: 'user', message: userMessage }, ...chatHistory]
ConversationInput(userMessage, chatHistory) ==
  << Turn("user", userMessage) >> \o chatHistory

ConversationInit ==
  /\ ChatIdle
  /\ JobsIdle
  /\ classified = NoFn
  /\ feed = NoFn
  /\ retrieval = NoFn
  /\ store = NoFn
  /\ listing = NoFn
  /\ conversation = [ pc |-> "run", messages |-> <<>>, message |-> "none",
                      recentMessages |-> <<>>, input |-> <<>> ]
  /\ migrations = NoFn
  /\ composable = NoFn

ConversationFrame ==
  UNCHANGED << chatVars, jobsVars, fnVars, store, listing, migrations, composable >>

\* The user's messages have texts of their own: the k-th one is "u<k>".
UserText(k) ==
  CASE k = 1 -> "u1" [] k = 2 -> "u2" [] k = 3 -> "u3" [] k = 4 -> "u4"
    [] k = 5 -> "u5" [] k = 6 -> "u6" [] OTHER -> "u7"

\* sendMessage: await ChatSession.addMessage(sessionId, message, 'user')
GeneralAddUser ==
  /\ conversation.pc = "run"
  /\ Len(conversation.messages) + 2 <= MaxTranscript
  /\ LET message == UserText(Len(conversation.messages) \div 2 + 1)
     IN conversation' = [conversation EXCEPT
          !.pc = "find", !.message = message,
          !.messages = Append(conversation.messages, Turn("user", message)),
          !.recentMessages = <<>>, !.input = <<>>]
  /\ ConversationFrame

\* _handleGeneralIntent: session = findBySessionId(sessionId);
\* recentMessages = session.messages.slice(-10)
GeneralFindSession ==
  /\ conversation.pc = "find"
  /\ conversation' = [conversation EXCEPT
       !.pc = "generate",
       !.recentMessages = sliceLast(conversation.messages, RecentTurns)]
  /\ ConversationFrame

\* generateContextualResponse(message, recentMessages, ...): the array passed
\* to openaiService.generateResponse.
GeneralGenerate ==
  /\ conversation.pc = "generate"
  /\ conversation' = [conversation EXCEPT
       !.pc = "addAsst",
       !.input = ConversationInput(conversation.message, conversation.recentMessages)]
  /\ ConversationFrame

\* sendMessage: await ChatSession.addMessage(sessionId, finalMessage, 'assistant')
GeneralAddAssistant ==
  /\ conversation.pc = "addAsst"
  /\ \E response \in {"r1", "r2"} :
       conversation' = [conversation EXCEPT
         !.pc = "run",
         !.messages = Append(conversation.messages, Turn("assistant", response))]
  /\ ConversationFrame

ConversationNext ==
  \/ GeneralAddUser
  \/ GeneralFindSession
  \/ GeneralGenerate
  \/ GeneralAddAssistant

ConversationSpec == ConversationInit /\ [][ConversationNext]_vars

\* C37: the input passed to the text generator is in chronological order (it
\* is the end of the transcript), holds the current user message exactly once
\* and has it as its last turn, whatever the transcript's length.
C37_InputChronologicalCurrentLast ==
  conversation.pc = "addAsst" =>
    LET input == conversation.input
        current == Turn("user", conversation.message)
        messages == conversation.messages
    IN /\ Cardinality({i \in 1..Len(input) : input[i] = current}) = 1
       /\ input[Len(input)] = current
       /\ Len(input) <= Len(messages)
       /\ input = SubSeq(messages, Len(messages) - Len(input) + 1, Len(messages))

(***************************************************************************)
(* The migration manager (database/migrate.js): runs of runMigrations      *)
(* against one database, one action per awaited call.  A file name is the  *)
(* sequence of its characters' codes; every migration file holds           *)
(* StatementsPerFile statements.                                           *)
(***************************************************************************)
MaxRuns == 3
MaxMigrationFailures == 2
StatementsPerFile == 2

\* The directory: "1.sql", "10.sql", "2.sql" and a file that is no migration.
MigrationsDir ==
  { [name |-> <<1>>, sql |-> TRUE], [name |-> <<1, 0>>, sql |-> TRUE],
    [name |-> <<2>>, sql |-> TRUE], [name |-> <<9>>, sql |-> FALSE] }

\* The order of Array.prototype.sort() on strings: by code units, a proper
\* prefix first.
LexLess(a, b) ==
  \E i \in 1..(Len(a) + 1) :
    /\ i <= Len(b)
    /\ \A j \in 1..(i - 1) : j <= Len(a) /\ a[j] = b[j]
    /\ (i = Len(a) + 1 \/ (i <= Len(a) /\ a[i] < b[i]))

\* [...].sort(): the names in ascending order.
SortNames(names) ==
  CHOOSE list \in [1..Cardinality(names) -> names] :
    \A i \in 1..Cardinality(names) : \A j \in (i + 1)..Cardinality(names) :
      LexLess(list[i], list[j])

\* getMigrationFiles: files.filter(file => file.endsWith('.sql')).sort()
getMigrationFiles == SortNames({f.name : f \in {g \in MigrationsDir : g.sql}})

\* list.filter(keep), for a list of names
FilterNames(list, excluded) ==
  LET F[i \in 0..Len(list)] ==
        IF i = 0 THEN <<>>
        ELSE IF list[i] \in excluded THEN F[i - 1] ELSE Append(F[i - 1], list[i])
  IN F[Len(list)]

\* allMigrationFiles.filter(file => !executedMigrations.includes(file))
PendingMigrations(allMigrationFiles, executedMigrations) ==
  FilterNames(allMigrationFiles, executedMigrations)

Names(list) == {list[i] : i \in 1..Len(list)}

MigrationInit ==
  /\ ChatIdle
  /\ JobsIdle
  /\ classified = NoFn
  /\ feed = NoFn
  /\ retrieval = NoFn
  /\ store = NoFn
  /\ listing = NoFn
  /\ conversation = NoFn
  /\ migrations = [ pc |-> "idle", runs |-> 0, failuresLeft |-> MaxMigrationFailures,
                    recorded |-> <<>>, executedMigrations |-> {},
                    pending |-> <<>>, k |-> 0, outcomes |-> <<>>, started |-> <<>> ]
  /\ composable = NoFn

MigrationFrame ==
  UNCHANGED << chatVars, jobsVars, fnVars, store, listing, conversation, composable >>

\* A database or file call fails while the run's failures last.
MigrationFailure(next) ==
  /\ migrations.failuresLeft > 0
  /\ migrations' = [next EXCEPT !.failuresLeft = migrations.failuresLeft - 1]

\* node migrate.js: runMigrations starts; setupMigrationsTable.
SetupMigrationsTable ==
  /\ migrations.pc \in {"idle", "done", "failed"}
  /\ migrations.runs < MaxRuns
  /\ LET begun == [migrations EXCEPT !.runs = migrations.runs + 1,
                     !.executedMigrations = {}, !.pending = <<>>, !.k = 0,
                     !.outcomes = <<>>, !.started = <<>>]
     IN \/ migrations' = [begun EXCEPT !.pc = "read"]
        \/ MigrationFailure([begun EXCEPT !.pc = "failed"])
  /\ MigrationFrame

\* getExecutedMigrations: the recorded names, or [] when the query fails;
\* then getMigrationFiles and the pending list.
GetExecutedMigrations ==
  /\ migrations.pc = "read"
  /\ LET listed(executed) ==
           LET pending == PendingMigrations(getMigrationFiles, executed)
           IN [migrations EXCEPT
                 !.executedMigrations = executed, !.pending = pending,
                 !.k = IF pending = <<>> THEN 0 ELSE 1,
                 !.pc = IF pending = <<>> THEN "done" ELSE "stmt"]
     IN \/ migrations' = listed(Names(migrations.recorded))
        \/ MigrationFailure(listed({}))
  /\ MigrationFrame

\* executeMigration: executeStatement(statements[i]).  "exists" is an error
\* the statement handler swallows, "error" one it rethrows.
ExecuteStatement ==
  /\ migrations.pc = "stmt"
  /\ LET filename == migrations.pending[migrations.k]
         first == migrations.outcomes = <<>>
         ran(outcome) ==
           [migrations EXCEPT
              !.outcomes = Append(migrations.outcomes, outcome),
              !.started = IF first THEN Append(migrations.started, filename)
                          ELSE migrations.started,
              !.pc = IF outcome = "error" THEN "failed"
                     ELSE IF Len(migrations.outcomes) + 1 = StatementsPerFile
                       THEN "mark" ELSE "stmt"]
     IN \/ migrations' = ran("ok")
        \/ MigrationFailure(ran("exists"))
        \/ MigrationFailure(ran("error"))
  /\ MigrationFrame

\* markMigrationExecuted: INSERT INTO schema_migrations; migration_name is
\* UNIQUE.  Then the loop goes on with the next pending file.
MarkMigrationExecuted ==
  /\ migrations.pc = "mark"
  /\ LET filename == migrations.pending[migrations.k]
         last == migrations.k = Len(migrations.pending)
     IN IF filename \in Names(migrations.recorded)
        THEN migrations' = [migrations EXCEPT !.pc = "failed"]
        ELSE \/ migrations' = [migrations EXCEPT
                   !.recorded = Append(migrations.recorded, filename),
                   !.outcomes = <<>>,
                   !.k = IF last THEN migrations.k ELSE migrations.k + 1,
                   !.pc = IF last THEN "done" ELSE "stmt"]
             \/ MigrationFailure([migrations EXCEPT !.pc = "failed"])
  /\ MigrationFrame

MigrationNext ==
  \/ SetupMigrationsTable
  \/ GetExecutedMigrations
  \/ ExecuteStatement
  \/ MarkMigrationExecuted

MigrationSpec == MigrationInit /\ [][MigrationNext]_vars

\* A migration is recorded only after all its statements ran without an error.
RecordedAfterAllStatements ==
  migrations'.recorded # migrations.recorded =>
    /\ Len(migrations.outcomes) = StatementsPerFile
    /\ \A i \in 1..Len(migrations.outcomes) : migrations.outcomes[i] = "ok"

\* The files a run has started are in ascending filename order.
StartedAscending ==
  \A i \in 1..Len(migrations.started) : \A j \in (i + 1)..Len(migrations.started) :
    LexLess(migrations.started[i], migrations.started[j])

\* Once a migration of a run has failed, the run executes and records nothing.
StopsAtFirstFailure ==
  migrations.pc = "failed" =>
    /\ migrations'.recorded = migrations.recorded
    /\ migrations'.outcomes = <<>>

\* No statement of a migration that is recorded has been executed.
RecordedNeverExecuted ==
  (migrations.pc \in {"stmt", "mark", "failed"} /\ migrations.outcomes # <<>>)
    => migrations.pending[migrations.k] \notin Names(migrations.recorded)

\* C38: the migration manager records a migration only after every statement
\* of its file has executed successfully, runs pending migrations in ascending
\* filename order, stops at the first failing migration, and never executes a
\* migration that is already recorded, across any number of runs.
C38_MigrationsRunOnceInOrder ==
  /\ [](StartedAscending /\ RecordedNeverExecuted)
  /\ [][RecordedAfterAllStatements /\ StopsAtFirstFailure]_vars

(***************************************************************************)
(* The Vue chat composable (useKoziChat.js): messages, lastFailedMessage,  *)
(* loading and error, and the texts handed to sendChatMessage.             *)
(***************************************************************************)
MaxSends == 4

UserTexts == {"hi", "jobs"}

ChatMessage(sender, text) == [sender |-> sender, text |-> text]

\* messages.value.filter(m => m.text !== text || m.sender !== 'user')
FilterFailed(messages, text) ==
  LET F[i \in 0..Len(messages)] ==
        IF i = 0 THEN <<>>
        ELSE IF messages[i].text # text \/ messages[i].sender # "user"
          THEN Append(F[i - 1], messages[i])
        ELSE F[i - 1]
  IN F[Len(messages)]

ComposableInit ==
  /\ ChatIdle
  /\ JobsIdle
  /\ classified = NoFn
  /\ feed = NoFn
  /\ retrieval = NoFn
  /\ store = NoFn
  /\ listing = NoFn
  /\ conversation = NoFn
  /\ migrations = NoFn
  /\ composable = [ pc |-> "idle", messages |-> <<>>, lastFailedMessage |-> "null",
                    loading |-> FALSE, error |-> "null", chatStarted |-> FALSE,
                    text |-> "null", retried |-> FALSE, requests |-> <<>> ]

ComposableFrame ==
  UNCHANGED << chatVars, jobsVars, fnVars, store, listing, conversation, migrations >>

\* sendMessage(text) up to its first await: the guard, the cleared error and
\* lastFailedMessage, then the auto-start or the user message and the request.
BeginSend(c, text, retried) ==
  IF c.loading THEN c
  ELSE LET cleared == [c EXCEPT !.error = "null", !.lastFailedMessage = "null",
                                !.text = text, !.retried = retried, !.loading = TRUE]
       IN IF ~c.chatStarted
          THEN [cleared EXCEPT !.pc = "autostart"]
          ELSE [cleared EXCEPT !.pc = "sending",
                  !.messages = Append(c.messages, ChatMessage("user", text))]

\* The user sends a text.
SendMessage ==
  /\ composable.pc = "idle"
  /\ Len(composable.requests) < MaxSends
  /\ \E text \in UserTexts : composable' = BeginSend(composable, text, FALSE)
  /\ ComposableFrame

\* sendMessage: await startSession(...) of the auto-start.
AutoStartSession ==
  /\ composable.pc = "autostart"
  /\ \/ \E welcome \in BOOLEAN :
          LET greeted == IF welcome
                         THEN Append(composable.messages, ChatMessage("bot", "welcome"))
                         ELSE composable.messages
          IN composable' = [composable EXCEPT
               !.chatStarted = TRUE, !.pc = "sending",
               !.messages = Append(greeted, ChatMessage("user", composable.text))]
     \/ composable' = [composable EXCEPT
          !.error = "start_failed", !.loading = FALSE, !.pc = "idle"]
  /\ ComposableFrame

\* sendMessage: await sendChatMessage(sessionId, userId, text), its success
\* branch, its catch and its finally.
SendChatMessage ==
  /\ composable.pc = "sending"
  /\ LET requested == [composable EXCEPT
           !.requests = Append(composable.requests, composable.text),
           !.loading = FALSE, !.pc = "idle"]
     IN \/ composable' = [requested EXCEPT
             !.messages = Append(composable.messages, ChatMessage("bot", "reply"))]
        \/ composable' = [requested EXCEPT
             !.error = "send_failed",
             !.lastFailedMessage = composable.text,
             !.messages = FilterFailed(composable.messages, composable.text)]
  /\ ComposableFrame

\* retryLastMessage
RetryLastMessage ==
  /\ composable.pc = "idle"
  /\ Len(composable.requests) < MaxSends
  /\ composable.lastFailedMessage # "null"
  /\ composable' = BeginSend([composable EXCEPT !.lastFailedMessage = "null",
                                                !.error = "null"],
                             composable.lastFailedMessage, TRUE)
  /\ ComposableFrame

ComposableNext ==
  \/ SendMessage
  \/ AutoStartSession
  \/ SendChatMessage
  \/ RetryLastMessage

ComposableSpec == ComposableInit /\ [][ComposableNext]_vars

\* C39: when a send fails, exactly the user message of that send is removed
\* from the displayed list and stored for retry, every earlier message (an
\* earlier user message with the same text included) stays, and
\* retryLastMessage re-sends the stored text once.
C39_OnlyFailedMessageRemoved ==
  [][ /\ ( composable.pc = "sending" /\ composable'.error = "send_failed" ) =>
           /\ composable'.lastFailedMessage = composable.text
           /\ composable'.messages
                = SubSeq(composable.messages, 1, Len(composable.messages) - 1)
      /\ ( composable.pc = "sending" /\ composable.retried ) =>
           /\ composable'.requests = Append(composable.requests, composable.text)
           /\ composable.lastFailedMessage = "null"
    ]_vars

====
